---- MODULE Spec2Model ----
(***************************************************************************)
(* UVCAD sync engine: the start_sync command (commands/sync.rs), the       *)
(* SyncEngine run (core/sync_engine.rs), the storage providers' listing,   *)
(* transfer and delete (providers/*.rs) and the file_states baseline       *)
(* (db/models.rs).                                                         *)
(*                                                                         *)
(* Three specifications share the engine's actions:                        *)
(*   Spec        the Tauri command start_sync, invoked by concurrent tasks *)
(*   SpecEngine  SyncEngine::start_sync called on an engine built with any *)
(*               provider set (the share provider initialized or not)      *)
(*   SpecPlan    determine_sync_action applied to every combination of     *)
(*               snapshots and baseline hashes of one path                 *)
(***************************************************************************)
EXTENDS Integers, Sequences, FiniteSets, TLC

\* ---------------------------------------------------------------- bounds
\* external changes to the trees
MaxEdits == 1
\* runs of SyncEngine::start_sync on one engine
MaxRuns == 2
\* engine runs started by start_sync commands
MaxCommandRuns == 1
\* injected I/O, network and database failures
MaxFailures == 1
\* deletion counts the safety thresholds are evaluated on
MaxCount == 60

\* ------------------------------------------------------ program constants
\* sync_engine.rs:16  const MAX_DELETION_PERCENTAGE: f32 = 0.30, as a percentage
MAX_DELETION_PERCENTAGE == 30
\* sync_engine.rs:17  const MAX_DELETION_COUNT: usize = 50
MAX_DELETION_COUNT == 50

\* ------------------------------------------------------------ data model
\* Four relative paths (one planned Delete among four scanned paths is the
\* least that passes the 30% threshold) and two file contents.
Paths == 1..4
Contents == 1..2
\* files[l][p] of a path the location does not hold
Absent == 0

\* FileLocation::as_str
Local == "local"
GoogleDrive == "gdrive"
Smb == "smb"
Loc == {Local, GoogleDrive, Smb}

Tasks == {"t1", "t2"}

\* Option<String> hashes.  The local and share providers advertise the
\* SHA-256 hex digest of the content, the cloud provider the MD5 hex digest
\* the service stores: two digests of the same content are different strings.
NoHash == <<"none", 0>>
compute_file_hash(c) == <<"sha256", c>>
compute_file_md5(c) == <<"md5", c>>

\* The hash a provider advertises for content c in its listing.
ProviderHash(l, c) == IF l = GoogleDrive THEN compute_file_md5(c) ELSE compute_file_hash(c)

\* Option<&FileSnapshot>
NoSnapshot == [present |-> FALSE, hash |-> NoHash]
FileSnapshot(h) == [present |-> TRUE, hash |-> h]

\* A file_states row: absent, or the stored content_hash.
NoRow == [row |-> FALSE, content_hash |-> NoHash, status |-> "none"]
FileState(h) == [row |-> TRUE, content_hash |-> h, status |-> "synced"]

\* LastKnownState, with a path that has no entry read as three None's
\* (last_known.and_then(|s| s.local.as_ref()))
NoLastKnown == [local |-> NoHash, gdrive |-> NoHash, smb |-> NoHash]

\* SyncOperation
Upload(from, to, path) == [kind |-> "Upload", from |-> from, to |-> to, path |-> path]
Delete(location, path) == [kind |-> "Delete", from |-> "none", to |-> location, path |-> path]

\* ConflictInfo
ConflictInfo(path, l, g, s) ==
    [file_path |-> path, local_hash |-> l.hash, gdrive_hash |-> g.hash, smb_hash |-> s.hash]
NoConflictInfo ==
    [file_path |-> 0, local_hash |-> NoHash, gdrive_hash |-> NoHash, smb_hash |-> NoHash]

\* SyncAction
NoAction == [kind |-> "NoAction", operations |-> <<>>, conflict |-> NoConflictInfo]
Sync(ops) == [kind |-> "Sync", operations |-> ops, conflict |-> NoConflictInfo]
Conflict(info) == [kind |-> "Conflict", operations |-> <<>>, conflict |-> info]

SyncOrNoAction(ops) == IF ops = <<>> THEN NoAction ELSE Sync(ops)

\* --------------------------------------------------------------- planner
\* Faulty variant: a current snapshot without a hash passes as unchanged
has_changed_hashless_unchanged(current, known) ==
    IF current.present
    THEN IF known # NoHash THEN current.hash # NoHash /\ current.hash # known ELSE TRUE
    ELSE known # NoHash

\* has_changed(current, last_known)
has_changed(current, known) ==
    IF current.present
    THEN IF known # NoHash THEN current.hash # known ELSE TRUE
    ELSE known # NoHash

\* Faulty variant: the local copy is uploaded to every configured remote, whether or
\* not the remote already holds the path
sync_from_local_overwrite(path, local, gdrive, smb, gp, sp) ==
    IF local.present
    THEN SyncOrNoAction(
           (IF gp THEN <<Upload(Local, GoogleDrive, path)>> ELSE <<>>)
        \o (IF sp THEN <<Upload(Local, Smb, path)>> ELSE <<>>))
    ELSE SyncOrNoAction(
           (IF gdrive.present THEN <<Delete(GoogleDrive, path)>> ELSE <<>>)
        \o (IF smb.present THEN <<Delete(Smb, path)>> ELSE <<>>))

sync_from_local(path, local, gdrive, smb, gp, sp) ==
    IF local.present
    THEN SyncOrNoAction(
           (IF gp /\ ~gdrive.present THEN <<Upload(Local, GoogleDrive, path)>> ELSE <<>>)
        \o (IF sp /\ ~smb.present THEN <<Upload(Local, Smb, path)>> ELSE <<>>))
    ELSE SyncOrNoAction(
           (IF gdrive.present THEN <<Delete(GoogleDrive, path)>> ELSE <<>>)
        \o (IF smb.present THEN <<Delete(Smb, path)>> ELSE <<>>))

\* Faulty variant: the cloud copy is uploaded to the share whether or not a
\* share provider exists
sync_from_gdrive_unguarded(path, local, gdrive, smb, gp, sp) ==
    IF gdrive.present
    THEN SyncOrNoAction(
           (IF ~local.present THEN <<Upload(GoogleDrive, Local, path)>> ELSE <<>>)
        \o (IF ~smb.present THEN <<Upload(GoogleDrive, Smb, path)>> ELSE <<>>))
    ELSE SyncOrNoAction(
           (IF local.present THEN <<Delete(Local, path)>> ELSE <<>>)
        \o (IF smb.present THEN <<Delete(Smb, path)>> ELSE <<>>))

sync_from_gdrive(path, local, gdrive, smb, gp, sp) ==
    IF gdrive.present
    THEN SyncOrNoAction(
           (IF ~local.present THEN <<Upload(GoogleDrive, Local, path)>> ELSE <<>>)
        \o (IF sp /\ ~smb.present THEN <<Upload(GoogleDrive, Smb, path)>> ELSE <<>>))
    ELSE SyncOrNoAction(
           (IF local.present THEN <<Delete(Local, path)>> ELSE <<>>)
        \o (IF smb.present THEN <<Delete(Smb, path)>> ELSE <<>>))

sync_from_smb(path, local, gdrive, smb, gp, sp) ==
    IF smb.present
    THEN SyncOrNoAction(
           (IF ~local.present THEN <<Upload(Smb, Local, path)>> ELSE <<>>)
        \o (IF gp /\ ~gdrive.present THEN <<Upload(Smb, GoogleDrive, path)>> ELSE <<>>))
    ELSE SyncOrNoAction(
           (IF local.present THEN <<Delete(Local, path)>> ELSE <<>>)
        \o (IF gdrive.present THEN <<Delete(GoogleDrive, path)>> ELSE <<>>))

\* local.or(gdrive).or(smb), as the location of the chosen snapshot
SourceLocation(local, gdrive, smb) ==
    IF local.present THEN Local ELSE IF gdrive.present THEN GoogleDrive ELSE Smb

sync_to_missing(path, local, gdrive, smb, gp, sp) ==
    IF ~local.present /\ ~gdrive.present /\ ~smb.present
    THEN NoAction
    ELSE LET src == SourceLocation(local, gdrive, smb)
         IN SyncOrNoAction(
               (IF ~local.present /\ src # Local
                THEN <<Upload(src, Local, path)>> ELSE <<>>)
            \o (IF gp /\ ~gdrive.present /\ src # GoogleDrive
                THEN <<Upload(src, GoogleDrive, path)>> ELSE <<>>)
            \o (IF sp /\ ~smb.present /\ src # Smb
                THEN <<Upload(src, Smb, path)>> ELSE <<>>))

ChangeCount(lc, gc, sc) ==
    (IF lc THEN 1 ELSE 0) + (IF gc THEN 1 ELSE 0) + (IF sc THEN 1 ELSE 0)

\* Faulty variant: a single change already counts as a multiple change
MultipleChangedOffByOne(change_count) == change_count > 0

\* if change_count > 1
MultipleChanged(change_count) == change_count > 1

\* Faulty variant: two changed copies pass as identical without comparing hashes
IdenticalChangesUnchecked(local, gdrive, local_changed, gdrive_changed) ==
    /\ local.present /\ gdrive.present
    /\ local_changed /\ gdrive_changed

\* "changes are identical (same hash)": only the local and the cloud
\* snapshot are compared
IdenticalChanges(local, gdrive, local_changed, gdrive_changed) ==
    /\ local.present /\ gdrive.present
    /\ local_changed /\ gdrive_changed
    /\ local.hash = gdrive.hash

\* determine_sync_action(path, local, gdrive, smb, last_known); gp and sp are
\* self.gdrive_provider.is_some() and self.smb_provider.is_some()
determine_sync_action(path, local, gdrive, smb, known, gp, sp) ==
    LET local_changed == has_changed(local, known.local)
        gdrive_changed == has_changed(gdrive, known.gdrive)
        smb_changed == has_changed(smb, known.smb)
    IN IF ~local_changed /\ ~gdrive_changed /\ ~smb_changed
       THEN NoAction
       ELSE IF MultipleChanged(ChangeCount(local_changed, gdrive_changed, smb_changed))
       THEN IF IdenticalChanges(local, gdrive, local_changed, gdrive_changed)
            THEN sync_to_missing(path, local, gdrive, smb, gp, sp)
            ELSE Conflict(ConflictInfo(path, local, gdrive, smb))
       ELSE IF local_changed THEN sync_from_local(path, local, gdrive, smb, gp, sp)
       ELSE IF gdrive_changed THEN sync_from_gdrive(path, local, gdrive, smb, gp, sp)
       ELSE sync_from_smb(path, local, gdrive, smb, gp, sp)

\* ------------------------------------------------------- deletion safety
RECURSIVE SeqSum(_)
SeqSum(s) == IF s = <<>> THEN 0 ELSE Head(s) + SeqSum(Tail(s))

DeletesIn(action) ==
    Cardinality({i \in DOMAIN action.operations : action.operations[i].kind = "Delete"})

\* Faulty variant: only the absolute threshold is enforced
check_deletion_safety_count_only(deleted, total) ==
    IF deleted > MAX_DELETION_COUNT THEN "SyncFailed" ELSE "Ok"

\* check_deletion_safety on the counts it derives from the plan: "Ok" or
\* "SyncFailed".  The f32 quotient deletion_count / total_files compared with
\* 0.30 decides as the exact ratio does for every count below 2^24 / 100.
check_deletion_safety(deleted, total) ==
    IF deleted = 0 THEN "Ok"
    ELSE IF deleted > MAX_DELETION_COUNT THEN "SyncFailed"
    ELSE IF deleted * 100 > MAX_DELETION_PERCENTAGE * total THEN "SyncFailed"
    ELSE "Ok"


\* ------------------------------------------------------------------ state
VARIABLES
    files,             \* [Loc -> [Paths -> content or Absent]]: the three trees
    baseline,          \* [Paths -> [Loc -> row]]: file_states of the profile
    is_syncing,        \* SYNC_STATE.is_syncing
    pc,                \* [Tasks -> position in the start_sync command]
    ret,               \* [Tasks -> what the last command returned to the host]
    gdrive_provider,   \* SyncEngine.gdrive_provider.is_some()
    smb_provider,      \* "none" | "new" (mounted = false) | "mounted"
    phase,             \* position of SyncEngine::start_sync
    local_files,       \* scan results: [Paths -> snapshot]
    gdrive_files,
    smb_files,
    last_known_state,  \* [Paths -> LastKnownState]
    planned_actions,   \* [Paths -> SyncAction], read on the scanned paths
    todo,              \* paths of the plan not yet taken by the execute loop
    cur,               \* the path being executed and its remaining operations
    result,            \* SyncResult, and how start_sync ended
    edits,             \* external changes so far
    runs,              \* engine runs started so far
    failures,          \* injected I/O failures so far
    file_states,       \* the file_states table: a set of rows, all profiles
    upserts,           \* the FileState of each upsert_file_state call made so far
    staging,           \* content of the file a download wrote, or Absent
    calls,             \* the direct calls of the storage providers made so far
    oauth,             \* AuthManager::authenticate: its position, listener, browser, result
    keychain,          \* the keychain entries of the application
    now,               \* the clock, in units of ClockStep seconds
    eval,              \* a call made on its own: the function, its arguments, its value
    h                  \* history of the current run (read by the properties only)

vars == <<files, baseline, is_syncing, pc, ret, gdrive_provider, smb_provider, phase,
          local_files, gdrive_files, smb_files, last_known_state, planned_actions,
          todo, cur, result, edits, runs, failures, file_states, upserts,
          staging, calls, oauth, keychain, now, eval, h>>

world == <<files, baseline>>
command == <<is_syncing, pc, ret>>
\* The state of the database layer and of the providers called on their own
others == <<oauth, keychain, now, eval>>
units == <<file_states, upserts, staging, calls, others>>
engine == <<gdrive_provider, smb_provider, phase, local_files, gdrive_files, smb_files,
            last_known_state, planned_actions, todo, cur, result>>

NoFiles == [p \in Paths |-> NoSnapshot]
\* Option<T>: <<>> is None, <<v>> is Some(v)
NoRequest == [sends |-> "none", parts |-> 0, path |-> "none", code |-> <<>>, state |-> <<>>]
NoTokens == [access_token |-> 0, refresh_token |-> <<>>, expires_at |-> <<>>]
NoFlow == [pc |-> "idle", csrf_token |-> 0, browser |-> FALSE, listener |-> "none",
           bound_at |-> 0, backlog |-> NoRequest, socket |-> NoRequest,
           refused |-> FALSE, callback |-> <<>>, exchanged |-> FALSE,
           tokens |-> NoTokens, ret |-> "none"]
NoKeychain == [tokens |-> <<>>, credentials |-> <<>>]
NoEval == [f |-> "none"]
NoPlan == [p \in Paths |-> NoAction]
NoCur == [path |-> 0, ops |-> <<>>]
NoResult == [files_synced |-> 0, files_failed |-> 0, files_conflict |-> 0,
             conflicts |-> <<>>, outcome |-> "none"]
NoRet == [kind |-> "none", files_synced |-> 0, conflicts |-> <<>>, errors |-> <<>>]

\* What the properties remember of a run: the baseline and the trees at its
\* start, the operations it attempted, whether a tree was changed from
\* outside since it started, the error a listing or the baseline load
\* returned, the paths that came back at one location after being gone from
\* every location with baseline rows left, how many times the progress
\* callback was called for each path, and whether it follows a completed
\* run with no failure, the same providers and no outside change in between.
NoHistory == [base0 |-> [p \in Paths |-> [l \in Loc |-> NoRow]],
              emitted |-> [p \in Paths |-> [processing |-> 0, syncing |-> 0]],
              files0 |-> [l \in Loc |-> [p \in Paths |-> Absent]],
              ops |-> {}, edited |-> FALSE, second |-> FALSE, error |-> "none",
              reappeared |-> {},
              prev |-> [clean |-> FALSE, gp |-> FALSE, sp |-> "none", conflicts |-> {}]]

\* Faulty variant: the paths of the baseline are collected with the scans
all_paths_with_known ==
    {p \in Paths : \/ local_files[p].present \/ gdrive_files[p].present
                   \/ smb_files[p].present
                   \/ last_known_state[p] # NoLastKnown}

\* collect_all_paths: the union of the three scans
all_paths == {p \in Paths : local_files[p].present \/ gdrive_files[p].present
                             \/ smb_files[p].present}

\* The listing a provider returns for its tree: list_files mapped by
\* scan_location into path -> FileSnapshot
scan_location(l) ==
    [p \in Paths |-> IF files[l][p] = Absent THEN NoSnapshot
                     ELSE FileSnapshot(ProviderHash(l, files[l][p]))]

\* get_last_known_state: the rows grouped by path
get_last_known_state ==
    [p \in Paths |-> [local |-> baseline[p][Local].content_hash,
                      gdrive |-> baseline[p][GoogleDrive].content_hash,
                      smb |-> baseline[p][Smb].content_hash]]

\* Faulty variant: the rows of files no longer observed are removed
update_last_known_state_pruning ==
    [p \in Paths |->
        [l \in Loc |->
            LET scan == IF l = Local THEN local_files
                        ELSE IF l = GoogleDrive THEN gdrive_files ELSE smb_files
            IN IF scan[p].present THEN FileState(scan[p].hash) ELSE NoRow]]

\* The scan of location l
ScanOf(l) ==
    IF l = Local THEN local_files ELSE IF l = GoogleDrive THEN gdrive_files ELSE smb_files

\* update_last_known_state: one upsert per scanned (path, location)
update_last_known_state ==
    [p \in Paths |->
        [l \in Loc |->
            IF ScanOf(l)[p].present THEN FileState(ScanOf(l)[p].hash) ELSE baseline[p][l]]]

\* The three loops of update_last_known_state run in this order
Before(a, b) ==
    \/ a = Local /\ b # Local
    \/ a = GoogleDrive /\ b = Smb

\* update_last_known_state stopped by a failing upsert in the loop of
\* location l, after the rows of the paths S of that loop were written
\* (each upsert is a statement of its own; the loop follows the order of a
\* HashMap)
partial_update_last_known_state(l, S) ==
    [p \in Paths |->
        [x \in Loc |->
            IF ScanOf(x)[p].present /\ (Before(x, l) \/ (x = l /\ p \in S))
            THEN FileState(ScanOf(x)[p].hash) ELSE baseline[p][x]]]

deletion_count == SeqSum([i \in 1..Cardinality(Paths) |->
                            IF i \in all_paths THEN DeletesIn(planned_actions[i]) ELSE 0])
total_files == Cardinality(all_paths)

\* Faulty variant: the conflicts of the engine's result are not passed on
SyncResultDtoWithoutConflicts(r) ==
    [kind |-> "Ok", files_synced |-> r.files_synced, conflicts |-> <<>>, errors |-> <<>>]

\* SyncResultDto built by the command from the engine's result
SyncResultDto(r) ==
    [kind |-> "Ok", files_synced |-> r.files_synced,
     conflicts |-> [i \in DOMAIN r.conflicts |-> r.conflicts[i].file_path],
     errors |-> <<>>]
Err(msg) == [kind |-> msg, files_synced |-> 0, conflicts |-> <<>>, errors |-> <<>>]

\* ---------------------------------------------------------- initial state
\* A profile whose paths S earlier runs have settled: the same content at the
\* local tree and the cloud folder, both recorded in the baseline.  The
\* program starts on a fresh profile (S empty) or on a settled one.
Settled(S) ==
    /\ files = [l \in Loc |-> [p \in Paths |->
                  IF p \in S /\ l # Smb THEN 1 ELSE Absent]]
    /\ baseline = [p \in Paths |-> [l \in Loc |->
                  IF p \in S /\ l # Smb THEN FileState(ProviderHash(l, 1)) ELSE NoRow]]

\* A settled profile one of whose paths was then removed everywhere: a file
\* deleted at one location, the deletion propagated by a run, and the rows of
\* the path left in the baseline (update_last_known_state removes none).
Removed(p) ==
    /\ files = [l \in Loc |-> [q \in Paths |->
                  IF q # p /\ l # Smb THEN 1 ELSE Absent]]
    /\ baseline = [q \in Paths |-> [l \in Loc |->
                  IF l # Smb THEN FileState(ProviderHash(l, 1)) ELSE NoRow]]

\* No call has been made on the database layer or on a provider directly.
\* No authentication was started, the keychain is empty, no function applied
NoOthers ==
    /\ oauth = NoFlow /\ keychain = NoKeychain /\ now = 0 /\ eval = NoEval

NoUnitCall ==
    /\ file_states = {} /\ upserts = <<>> /\ staging = Absent /\ calls = <<>>
    /\ NoOthers

NoEngineRun ==
    /\ phase = "idle"
    /\ local_files = NoFiles /\ gdrive_files = NoFiles /\ smb_files = NoFiles
    /\ last_known_state = [p \in Paths |-> NoLastKnown]
    /\ planned_actions = NoPlan /\ todo = {} /\ cur = NoCur /\ result = NoResult

InitWorld ==
    /\ \/ \E S \in {{}, Paths} : Settled(S)
       \/ Removed(CHOOSE p \in Paths : TRUE)
    /\ is_syncing = FALSE
    /\ pc = [t \in Tasks |-> "idle"]
    /\ ret = [t \in Tasks |-> NoRet]
    /\ NoEngineRun /\ NoUnitCall
    /\ edits = 0 /\ runs = 0 /\ failures = 0
    /\ h = NoHistory

\* The program has started; no command has built an engine yet.
Init ==
    /\ InitWorld
    /\ gdrive_provider = FALSE /\ smb_provider = "none"

\* ------------------------------------------------------------ environment
\* A user or another program creates, rewrites or removes a file at one
\* location, at any moment.  A change made while the engine scans, loads or
\* plans is the same change made just before the scan of its location or
\* just after the safety check, so those two moments stand for all of them.
ExternalEdit(l, p, c) ==
    /\ edits < MaxEdits
    /\ phase \in {"idle", "exec", "ops"}
    /\ files[l][p] # c
    /\ files' = [files EXCEPT ![l][p] = c]
    /\ edits' = edits + 1
    /\ h' = [h EXCEPT !.edited = TRUE, !.prev.clean = FALSE, !.prev.conflicts = {},
                      !.reappeared =
                          IF /\ phase = "idle" /\ c # Absent
                             /\ \A x \in Loc : files[x][p] = Absent
                             /\ \E x \in Loc : baseline[p][x].row
                          THEN {p} ELSE h.reappeared]
    /\ UNCHANGED <<baseline, command, engine, runs, failures, units>>

\* ----------------------------------------------------------------- engine
\* SyncEngine::new followed by the entry of start_sync
EngineBegin(gp, sp) ==
    /\ runs < MaxRuns
    /\ runs' = runs + 1
    /\ gdrive_provider' = gp
    /\ smb_provider' = sp
    /\ phase' = "scan_local"
    /\ local_files' = NoFiles /\ gdrive_files' = NoFiles /\ smb_files' = NoFiles
    /\ last_known_state' = [p \in Paths |-> NoLastKnown]
    /\ planned_actions' = NoPlan /\ todo' = {} /\ cur' = NoCur
    /\ result' = [NoResult EXCEPT !.outcome = "running"]
    /\ h' = [base0 |-> baseline, files0 |-> files, ops |-> {}, edited |-> FALSE,
             emitted |-> NoHistory.emitted,
             error |-> "none", reappeared |-> h.reappeared,
             second |-> h.prev.clean /\ h.prev.gp = gp /\ h.prev.sp = sp,
             prev |-> [clean |-> FALSE, gp |-> gp, sp |-> sp,
                       conflicts |-> IF h.prev.clean /\ h.prev.gp = gp /\ h.prev.sp = sp
                                     THEN h.prev.conflicts ELSE {}]]

\* `?` on a failed phase: start_sync returns the error
Abort(outcome) ==
    /\ phase' = "done"
    /\ result' = [result EXCEPT !.outcome = outcome]

\* Step 1: scan_location(local_provider)
ScanLocal ==
    /\ phase = "scan_local"
    /\ local_files' = scan_location(Local)
    /\ phase' = "scan_gdrive"
    /\ UNCHANGED <<world, command, gdrive_provider, smb_provider, gdrive_files, smb_files,
                   last_known_state, planned_actions, todo, cur, result,
                   edits, runs, failures, h, units>>

\* scan_location(gdrive_provider), or an empty map without the provider
ScanGdrive ==
    /\ phase = "scan_gdrive"
    /\ gdrive_files' = IF gdrive_provider THEN scan_location(GoogleDrive) ELSE NoFiles
    /\ phase' = "scan_smb"
    /\ UNCHANGED <<world, command, gdrive_provider, smb_provider, local_files, smb_files,
                   last_known_state, planned_actions, todo, cur, result,
                   edits, runs, failures, h, units>>

\* scan_location(smb_provider): SambaProvider::list_files refuses with
\* SmbNotAccessible while mounted is false
ScanSmb ==
    /\ phase = "scan_smb"
    /\ IF smb_provider = "new"
       THEN /\ Abort("SmbNotAccessible")
            /\ h' = [h EXCEPT !.error = "SmbNotAccessible"]
            /\ UNCHANGED smb_files
       ELSE /\ smb_files' = IF smb_provider = "mounted" THEN scan_location(Smb) ELSE NoFiles
            /\ phase' = "load"
            /\ UNCHANGED <<result, h>>
    /\ UNCHANGED <<world, command, gdrive_provider, smb_provider, local_files, gdrive_files,
                   last_known_state, planned_actions, todo, cur,
                   edits, runs, failures, units>>

\* The paths under the subfolder of each tree (path 3: see file_name)
Subfolder == {3}

\* list_files_recursive of the cloud or the share provider when its
\* subfolder cannot be listed: the error is logged, the entries of the
\* subfolder are left out and the listing is returned as Ok
list_files_recursive_skipping(l) ==
    [p \in Paths |-> IF p \in Subfolder THEN NoSnapshot ELSE scan_location(l)[p]]

\* scan_location of the cloud or the share provider while the listing of
\* its subfolder fails (I/O or network error).  A step of SpecListing only;
\* the other specifications list trees whose folders are all readable.
ScanSubfolderFails ==
    /\ failures < MaxFailures
    /\ failures' = failures + 1
    /\ \/ /\ phase = "scan_gdrive" /\ gdrive_provider
          /\ \E p \in Subfolder : files[GoogleDrive][p] # Absent
          /\ gdrive_files' = list_files_recursive_skipping(GoogleDrive)
          /\ phase' = "scan_smb"
          /\ UNCHANGED smb_files
       \/ /\ phase = "scan_smb" /\ smb_provider = "mounted"
          /\ \E p \in Subfolder : files[Smb][p] # Absent
          /\ smb_files' = list_files_recursive_skipping(Smb)
          /\ phase' = "load"
          /\ UNCHANGED gdrive_files
    /\ UNCHANGED <<world, command, gdrive_provider, smb_provider, local_files,
                   last_known_state, planned_actions, todo, cur, result, edits, runs, h, units>>

\* Faulty variant: a failed listing is taken for an empty one
ScanFailsSwallowed ==
    /\ \/ phase = "scan_local"
       \/ phase = "scan_gdrive" /\ gdrive_provider
       \/ phase = "scan_smb" /\ smb_provider = "mounted"
    /\ failures < MaxFailures
    /\ failures' = failures + 1
    /\ phase' = IF phase = "scan_local" THEN "scan_gdrive"
                ELSE IF phase = "scan_gdrive" THEN "scan_smb" ELSE "load"
    /\ h' = [h EXCEPT !.error = "ProviderError"]
    /\ UNCHANGED <<world, command, gdrive_provider, smb_provider, local_files, gdrive_files,
                   smb_files, last_known_state, planned_actions, todo, cur, result,
                   edits, runs, units>>

\* list_files of a configured provider fails (I/O or network error)
ScanFails ==
    /\ \/ phase = "scan_local"
       \/ phase = "scan_gdrive" /\ gdrive_provider
       \/ phase = "scan_smb" /\ smb_provider = "mounted"
    /\ failures < MaxFailures
    /\ failures' = failures + 1
    /\ Abort("ProviderError")
    /\ h' = [h EXCEPT !.error = "ProviderError"]
    /\ UNCHANGED <<world, command, gdrive_provider, smb_provider, local_files, gdrive_files,
                   smb_files, last_known_state, planned_actions, todo, cur, edits, runs, units>>

\* Step 2: get_last_known_state
LoadBaseline ==
    /\ phase = "load"
    /\ last_known_state' = get_last_known_state
    /\ phase' = "plan"
    /\ UNCHANGED <<world, command, gdrive_provider, smb_provider, local_files, gdrive_files,
                   smb_files, planned_actions, todo, cur, result, edits, runs, failures, h, units>>

\* get_last_known_state()? fails (the database lock or the query)
LoadBaselineFails ==
    /\ phase = "load"
    /\ failures < MaxFailures
    /\ failures' = failures + 1
    /\ Abort("DatabaseError")
    /\ h' = [h EXCEPT !.error = "DatabaseError"]
    /\ UNCHANGED <<world, command, gdrive_provider, smb_provider, local_files, gdrive_files,
                   smb_files, last_known_state, planned_actions, todo, cur, edits, runs, units>>

\* Step 3: the first pass, one determine_sync_action per scanned path
Plan ==
    /\ phase = "plan"
    /\ planned_actions' =
         [p \in Paths |->
            IF p \in all_paths
            THEN determine_sync_action(p, local_files[p], gdrive_files[p], smb_files[p],
                                       last_known_state[p],
                                       gdrive_provider, smb_provider # "none")
            ELSE NoAction]
    /\ phase' = "safety"
    /\ UNCHANGED <<world, command, gdrive_provider, smb_provider, local_files, gdrive_files,
                   smb_files, last_known_state, todo, cur, result, edits, runs, failures, h, units>>

\* Step 3a: check_deletion_safety(&planned_actions, total_files)?
CheckDeletionSafety ==
    /\ phase = "safety"
    /\ IF check_deletion_safety(deletion_count, total_files) = "SyncFailed"
       THEN Abort("SyncFailed") /\ UNCHANGED todo
       ELSE phase' = "exec" /\ todo' = all_paths /\ UNCHANGED result
    /\ UNCHANGED <<world, command, gdrive_provider, smb_provider, local_files, gdrive_files,
                   smb_files, last_known_state, planned_actions, cur,
                   edits, runs, failures, h, units>>

\* The loop counter `processed`: the iterations of the execute loop that
\* have ended
processed == Cardinality(all_paths \ todo)

\* path.file_name(): the last component of the path.  Paths 1 and 3 are
\* files of one name in two directories.
file_name(p) == IF p = 3 THEN 1 ELSE p

\* One call of the progress callback the command installed
ProgressCall(p, operation) ==
    [processed |-> processed, total |-> total_files,
     filename |-> file_name(p), operation |-> operation]

\* Faulty variant: 'syncing' is reported for every entry of the plan
progress_calls_for_every_action(p) ==
    <<ProgressCall(p, "processing"), ProgressCall(p, "syncing")>>

\* The calls of the progress callback in the iteration of path p: one
\* 'processing' at its top, one 'syncing' in the Sync arm before
\* execute_sync_operations
progress_calls(p) ==
    <<ProgressCall(p, "processing")>>
    \o (IF planned_actions[p].kind = "Sync"
        THEN <<ProgressCall(p, "syncing")>> ELSE <<>>)

\* How many of the calls cs report the operation
Calls(cs, operation) == Cardinality({i \in 1..Len(cs) : cs[i].operation = operation})

\* Step 3b: the execute loop takes the next entry of the plan.  The plan is in
\* the iteration order of a HashSet, so any untaken path may be next.
ExecutePath(p) ==
    /\ phase = "exec"
    /\ p \in todo
    /\ LET action == planned_actions[p]
       IN CASE action.kind = "NoAction" ->
                 /\ result' = [result EXCEPT !.files_synced = @ + 1]
                 /\ todo' = todo \ {p}
                 /\ UNCHANGED <<phase, cur>>
            [] action.kind = "Conflict" ->
                 /\ result' = [result EXCEPT !.conflicts = Append(@, action.conflict),
                                             !.files_conflict = @ + 1]
                 /\ todo' = todo \ {p}
                 /\ UNCHANGED <<phase, cur>>
            [] action.kind = "Sync" ->
                 /\ cur' = [path |-> p, ops |-> action.operations]
                 /\ phase' = "ops"
                 /\ UNCHANGED <<result, todo>>
    /\ h' = [h EXCEPT !.emitted[p] =
                [processing |-> @.processing + Calls(progress_calls(p), "processing"),
                 syncing |-> @.syncing + Calls(progress_calls(p), "syncing")]]
    /\ UNCHANGED <<world, command, gdrive_provider, smb_provider, local_files, gdrive_files,
                   smb_files, last_known_state, planned_actions, edits, runs, failures, units>>


\* get_provider(location): false stands for Err(ProviderError)
get_provider(l) ==
    IF l = Local THEN TRUE
    ELSE IF l = GoogleDrive THEN gdrive_provider
    ELSE smb_provider # "none"

\* What the providers require of one operation: transfer_file needs both
\* providers and the source file to download; delete_file needs the provider
\* and the file (a missing file is an error of every provider's delete).
CanSucceed(op) ==
    IF op.kind = "Upload"
    THEN get_provider(op.from) /\ get_provider(op.to) /\ files[op.from][op.path] # Absent
    ELSE get_provider(op.to) /\ files[op.to][op.path] # Absent

\* The trees after transfer_file (download to the staging file, upload of
\* the staging file) or delete_file
Apply(op) ==
    IF op.kind = "Upload"
    THEN [files EXCEPT ![op.to][op.path] = files[op.from][op.path]]
    ELSE [files EXCEPT ![op.to][op.path] = Absent]

\* execute_sync_operations: the next operation of the current path succeeds;
\* after the last one the path counts as synced
OperationSucceeds ==
    /\ phase = "ops"
    /\ LET op == Head(cur.ops)
       IN /\ CanSucceed(op)
          /\ files' = Apply(op)
          /\ h' = [h EXCEPT !.ops = @ \cup {[op |-> op, ok |-> TRUE]}]
    /\ IF Len(cur.ops) = 1
       THEN /\ result' = [result EXCEPT !.files_synced = @ + 1]
            /\ todo' = todo \ {cur.path}
            /\ cur' = NoCur
            /\ phase' = "exec"
       ELSE /\ cur' = [cur EXCEPT !.ops = Tail(@)]
            /\ UNCHANGED <<result, todo, phase>>
    /\ UNCHANGED <<baseline, command, gdrive_provider, smb_provider, local_files,
                   gdrive_files, smb_files, last_known_state, planned_actions,
                   edits, runs, failures, units>>

\* What execute_sync_operations leaves of the current path's operations
\* after one has failed: `?` returns at once, so nothing
RemainingAfterFailure(ops) == <<>>

\* execute_sync_operations: the next operation fails, because the file it
\* needs is gone or because of an I/O or network error; start_sync counts
\* the path as failed and goes on with the next path
OperationFails ==
    /\ phase = "ops"
    /\ LET op == Head(cur.ops)
       IN /\ IF CanSucceed(op)
             THEN failures < MaxFailures /\ failures' = failures + 1
             ELSE UNCHANGED failures
          /\ h' = [h EXCEPT !.ops = @ \cup {[op |-> op, ok |-> FALSE]}]
    /\ IF RemainingAfterFailure(Tail(cur.ops)) = <<>>
       THEN /\ result' = [result EXCEPT !.files_failed = @ + 1]
            /\ todo' = todo \ {cur.path}
            /\ cur' = NoCur
            /\ phase' = "exec"
       ELSE /\ cur' = [cur EXCEPT !.ops = RemainingAfterFailure(Tail(@))]
            /\ UNCHANGED <<result, todo, phase>>
    /\ UNCHANGED <<world, command, gdrive_provider, smb_provider, local_files,
                   gdrive_files, smb_files, last_known_state, planned_actions,
                   edits, runs, units>>

\* Step 4: update_last_known_state, then Ok(result)
Commit ==
    /\ phase = "exec"
    /\ todo = {}
    /\ baseline' = update_last_known_state
    /\ phase' = "done"
    /\ result' = [result EXCEPT !.outcome = "Ok"]
    /\ UNCHANGED <<files, command, gdrive_provider, smb_provider, local_files,
                   gdrive_files, smb_files, last_known_state, planned_actions, todo, cur,
                   edits, runs, failures, h, units>>

\* update_last_known_state(..)? fails: at the database lock, or at an upsert
\* after some rows were written; start_sync returns the error
CommitFails ==
    /\ phase = "exec"
    /\ todo = {}
    /\ failures < MaxFailures
    /\ failures' = failures + 1
    /\ \/ baseline' = baseline
       \/ \E l \in Loc :
             \E S \in SUBSET {p \in Paths : ScanOf(l)[p].present} :
                /\ S # {p \in Paths : ScanOf(l)[p].present}
                /\ baseline' = partial_update_last_known_state(l, S)
    /\ Abort("DatabaseError")
    /\ UNCHANGED <<files, command, gdrive_provider, smb_provider, local_files,
                   gdrive_files, smb_files, last_known_state, planned_actions, todo, cur,
                   edits, runs, h, units>>

\* start_sync has returned: the engine and its locals are dropped
EngineEnd ==
    /\ phase = "done"
    /\ phase' = "idle"
    /\ local_files' = NoFiles /\ gdrive_files' = NoFiles /\ smb_files' = NoFiles
    /\ last_known_state' = [p \in Paths |-> NoLastKnown]
    /\ planned_actions' = NoPlan /\ todo' = {} /\ cur' = NoCur /\ result' = NoResult
    /\ h' = [NoHistory EXCEPT
               !.prev = [clean |-> result.outcome = "Ok" /\ result.files_failed = 0
                                   /\ ~h.edited,
                         gp |-> gdrive_provider, sp |-> smb_provider,
                         conflicts |-> IF result.outcome = "Ok" /\ result.files_failed = 0
                                          /\ ~h.edited
                                       THEN {p \in Paths : planned_actions[p].kind = "Conflict"}
                                       ELSE {}]]

EngineStep ==
    \/ ScanLocal
    \/ ScanGdrive
    \/ ScanSmb
    \/ ScanFails
    \/ LoadBaseline
    \/ LoadBaselineFails
    \/ Plan
    \/ CheckDeletionSafety
    \/ \E p \in Paths : ExecutePath(p)
    \/ OperationSucceeds
    \/ OperationFails
    \/ Commit
    \/ CommitFails

Edit == \E l \in Loc, p \in Paths, c \in Contents \cup {Absent} : ExternalEdit(l, p, c)

\* ------------------------------------------------- SyncEngine::start_sync
\* SyncEngine::new: an engine over the local provider, an optional cloud
\* provider and an optional share provider (initialized or not); its caller
\* runs start_sync on it any number of times.
InitEngine ==
    /\ InitWorld
    /\ gdrive_provider \in BOOLEAN
    /\ smb_provider \in {"none", "new", "mounted"}

EngineStartSync ==
    /\ phase = "idle"
    /\ EngineBegin(gdrive_provider, smb_provider)
    /\ UNCHANGED <<world, command, edits, failures, units>>

EngineReturn ==
    /\ EngineEnd
    /\ UNCHANGED <<world, command, gdrive_provider, smb_provider, edits, runs, failures, units>>

NextEngine ==
    \/ EngineStartSync
    \/ EngineStep
    \/ EngineReturn
    \/ Edit

SpecEngine == InitEngine /\ [][NextEngine]_vars


\* ------------------------------------------------- the start_sync command
\* Faulty variant: the command does not look at the flag
AlreadySyncingIgnored == FALSE

\* if state.is_syncing { return Err("Sync already in progress") }
AlreadySyncing == is_syncing

\* start_sync (commands/sync.rs), up to the check of SYNC_STATE: under the
\* lock the flag is read and, when clear, set
CmdStartSync(t) ==
    /\ pc[t] = "idle"
    /\ runs < MaxCommandRuns
    /\ IF AlreadySyncing
       THEN /\ ret' = [ret EXCEPT ![t] = Err("Sync already in progress")]
            /\ UNCHANGED <<is_syncing, pc>>
       ELSE /\ is_syncing' = TRUE
            /\ pc' = [pc EXCEPT ![t] = "setup"]
            /\ ret' = [ret EXCEPT ![t] = NoRet]
    /\ UNCHANGED <<world, engine, edits, runs, failures, h, units>>

\* get_or_create_default_profile()? fails: the command returns the error
CmdProfileFails(t) ==
    /\ pc[t] = "setup"
    /\ failures < MaxFailures
    /\ failures' = failures + 1
    /\ pc' = [pc EXCEPT ![t] = "idle"]
    /\ ret' = [ret EXCEPT ![t] = Err("Failed to get sync profile")]
    /\ UNCHANGED <<world, is_syncing, engine, edits, runs, h, units>>

\* The providers of the profile are built (the cloud provider only when a
\* folder is configured and tokens are stored, the share provider by
\* SambaProvider::new when a share path is configured), then SyncEngine::new
\* and sync_engine.start_sync()
CmdRunEngine(t) ==
    /\ pc[t] = "setup"
    /\ runs < MaxCommandRuns
    /\ \E gp \in BOOLEAN, sp \in {"none", "new"} : EngineBegin(gp, sp)
    /\ pc' = [pc EXCEPT ![t] = "engine"]
    /\ UNCHANGED <<world, is_syncing, ret, edits, failures, units>>

\* start_sync has returned to the command: on Err the flag is cleared and
\* "Sync failed" returned; on Ok the result becomes a SyncResultDto
CmdFinish(t) ==
    /\ pc[t] = "engine"
    /\ EngineEnd
    /\ gdrive_provider' = FALSE /\ smb_provider' = "none"
    /\ is_syncing' = FALSE
    /\ pc' = [pc EXCEPT ![t] = "idle"]
    /\ ret' = [ret EXCEPT ![t] = IF result.outcome = "Ok" THEN SyncResultDto(result)
                                  ELSE Err("Sync failed")]
    /\ UNCHANGED <<world, edits, runs, failures, units>>

Next ==
    \/ \E t \in Tasks : CmdStartSync(t)
    \/ \E t \in Tasks : CmdProfileFails(t)
    \/ \E t \in Tasks : CmdRunEngine(t)
    \/ \E t \in Tasks : CmdFinish(t)
    \/ EngineStep
    \/ Edit

Spec == Init /\ [][Next]_vars

\* ------------------------------------------------- determine_sync_action
\* The planner on one path: every combination of what the three scans can
\* hold for it (a cloud file the service gives no md5Checksum for and a share
\* file whose hash could not be read have no hash) and of baseline hashes.
PlanPath == CHOOSE p \in Paths : TRUE
LocalSnapshots == {NoSnapshot} \cup {FileSnapshot(compute_file_hash(c)) : c \in Contents}
GdriveSnapshots ==
    {NoSnapshot, FileSnapshot(NoHash)} \cup {FileSnapshot(compute_file_md5(c)) : c \in Contents}
SmbSnapshots ==
    {NoSnapshot, FileSnapshot(NoHash)} \cup {FileSnapshot(compute_file_hash(c)) : c \in Contents}

InitPlan ==
    /\ files = [l \in Loc |-> [p \in Paths |-> Absent]]
    /\ baseline = [p \in Paths |-> [l \in Loc |-> NoRow]]
    /\ is_syncing = FALSE
    /\ pc = [t \in Tasks |-> "idle"]
    /\ ret = [t \in Tasks |-> NoRet]
    /\ gdrive_provider \in BOOLEAN
    /\ smb_provider \in {"none", "mounted"}
    /\ phase = "plan"
    /\ \E l \in LocalSnapshots : local_files = [NoFiles EXCEPT ![PlanPath] = l]
    /\ \E g \in IF gdrive_provider THEN GdriveSnapshots ELSE {NoSnapshot} :
          gdrive_files = [NoFiles EXCEPT ![PlanPath] = g]
    /\ \E s \in IF smb_provider = "mounted" THEN SmbSnapshots ELSE {NoSnapshot} :
          smb_files = [NoFiles EXCEPT ![PlanPath] = s]
    /\ \E kl \in {NoHash} \cup {compute_file_hash(c) : c \in Contents},
          kg \in {NoHash} \cup {compute_file_md5(c) : c \in Contents},
          ks \in {NoHash} \cup {compute_file_hash(c) : c \in Contents} :
          last_known_state = [[p \in Paths |-> NoLastKnown] EXCEPT
                                ![PlanPath] = [local |-> kl, gdrive |-> kg, smb |-> ks]]
    /\ planned_actions = NoPlan /\ todo = {} /\ cur = NoCur
    /\ result = [NoResult EXCEPT !.outcome = "running"]
    /\ edits = 0 /\ runs = 1 /\ failures = 0
    /\ NoUnitCall
    /\ h = NoHistory

NextPlan == Plan

SpecPlan == InitPlan /\ [][NextPlan]_vars

\* ------------------------------------------------ Database::upsert_file_state
\* Calls of upsert_file_state the database layer takes
MaxUpserts == 2

ProfileIds == 1..2
DbPaths == 1..2
\* NULL in a column, None in a field
Null == <<"null", 0>>

\* SyncStatus::as_str
SyncStatus_as_str(status) ==
    CASE status = "Synced" -> "synced"
      [] status = "Modified" -> "modified"
      [] status = "Deleted" -> "deleted"
      [] status = "Conflict" -> "conflict"
      [] status = "Pending" -> "pending"

\* DateTime::to_rfc3339 under Option::map
to_rfc3339(dt) == IF dt = Null THEN Null ELSE <<"rfc3339", dt[2]>>

\* The FileState values upsert_file_state is called with
FileStates ==
    [profile_id : ProfileIds, file_path : DbPaths, location : Loc,
     content_hash : {Null, compute_file_hash(1)},
     size_bytes : {1},
     modified_at : {Null, <<"utc", 1>>},
     synced_at : {<<"utc", 2>>},
     status : {"Synced", "Deleted"}]

\* The columns of UNIQUE(profile_id, file_path, location)
RowKey(r) == <<r.profile_id, r.file_path, r.location>>

\* The parameters ?1..?8 bound from a FileState
Params(state) ==
    [profile_id |-> state.profile_id, file_path |-> state.file_path,
     location |-> state.location,
     content_hash |-> state.content_hash, size_bytes |-> state.size_bytes,
     modified_at |-> to_rfc3339(state.modified_at),
     synced_at |-> to_rfc3339(state.synced_at),
     status |-> SyncStatus_as_str(state.status)]

\* id INTEGER PRIMARY KEY AUTOINCREMENT
NextRowId(table) ==
    IF table = {} THEN 1
    ELSE 1 + CHOOSE n \in {r.id : r \in table} : \A r \in table : r.id <= n

\* INSERT INTO file_states (..) VALUES (..)
InsertRow(table, id, v) ==
    table \cup {[id |-> id, profile_id |-> v.profile_id, file_path |-> v.file_path,
                 location |-> v.location, content_hash |-> v.content_hash,
                 size_bytes |-> v.size_bytes, modified_at |-> v.modified_at,
                 synced_at |-> v.synced_at, status |-> v.status]}

\* Faulty variant: a plain INSERT, with no UNIQUE constraint to conflict on
upsert_file_state_insert_only(table, state) ==
    InsertRow(table, NextRowId(table), Params(state))

\* upsert_file_state: INSERT .. ON CONFLICT(profile_id, file_path, location)
\* DO UPDATE SET the other columns from the excluded row
upsert_file_state(table, state) ==
    LET v == Params(state)
        hit == {r \in table : RowKey(r) = RowKey(v)}
    IN IF hit = {} THEN InsertRow(table, NextRowId(table), v)
       ELSE (table \ hit) \cup
            {[r EXCEPT !.content_hash = v.content_hash, !.size_bytes = v.size_bytes,
                       !.modified_at = v.modified_at, !.synced_at = v.synced_at,
                       !.status = v.status] : r \in hit}

\* A database with its schema and no row
InitDb ==
    /\ files = [l \in Loc |-> [p \in Paths |-> Absent]]
    /\ baseline = [p \in Paths |-> [l \in Loc |-> NoRow]]
    /\ is_syncing = FALSE
    /\ pc = [t \in Tasks |-> "idle"]
    /\ ret = [t \in Tasks |-> NoRet]
    /\ gdrive_provider = FALSE /\ smb_provider = "none"
    /\ NoEngineRun /\ NoUnitCall
    /\ edits = 0 /\ runs = 0 /\ failures = 0
    /\ h = NoHistory

\* A call of upsert_file_state whose statement executes
UpsertFileState(state) ==
    /\ Len(upserts) < MaxUpserts
    /\ file_states' = upsert_file_state(file_states, state)
    /\ upserts' = Append(upserts, state)
    /\ UNCHANGED <<world, command, engine, edits, runs, failures, staging, calls, h,
                   others>>

\* A call of upsert_file_state whose statement fails: conn.execute(..)?
UpsertFileStateFails(state) ==
    /\ Len(upserts) < MaxUpserts
    /\ failures < MaxFailures
    /\ failures' = failures + 1
    /\ UNCHANGED <<world, command, engine, edits, runs, units, h>>

NextDb ==
    \/ \E state \in FileStates : UpsertFileState(state)
    \/ \E state \in FileStates : UpsertFileStateFails(state)

SpecDb == InitDb /\ [][NextDb]_vars

\* ------------------------------------------------------- StorageProvider
\* Direct calls of the providers
MaxCalls == 2

\* The path the calls are made on
CallPath == CHOOSE p \in Paths : TRUE

\* A call as its caller sees it: the operation, the provider, the
\* destination of a transfer, the hash the provider advertised for the file
\* when the call was made, and what the call returned
Call(op, l, to, advertised, outcome) ==
    [op |-> op, location |-> l, to |-> to, advertised |-> advertised, outcome |-> outcome]

\* The hash get_metadata of location l reports for content c; Drive reports
\* an md5Checksum or none
Advertised(l, c) ==
    IF l = GoogleDrive THEN {NoHash, compute_file_md5(c)} ELSE {compute_file_hash(c)}

\* What a download that wrote content w returns: GoogleDriveProvider checks
\* the MD5 of the destination when the file has an md5_checksum;
\* LocalFsProvider and SambaProvider return Ok once fs::copy has returned
download(l, advertised, w) ==
    IF l = GoogleDrive /\ advertised # NoHash /\ compute_file_md5(w) # advertised
    THEN "SyncFailed"
    ELSE "Ok"

\* The three providers over their trees; the share provider is new (mounted
\* = false) or initialized
InitProvider ==
    /\ InitWorld
    /\ gdrive_provider = TRUE
    /\ smb_provider \in {"new", "mounted"}

\* A call that leaves the trees and the staging file alone
Returns(op, l, outcome) ==
    /\ Len(calls) < MaxCalls
    /\ calls' = Append(calls, Call(op, l, "none", NoHash, outcome))
    /\ UNCHANGED <<world, command, phase, local_files, gdrive_files, smb_files,
                   last_known_state, planned_actions, todo, cur, result, gdrive_provider,
                   edits, runs, failures, file_states, upserts, staging, h,
                   others>>

\* SambaProvider::initialize: mounted = check_mount(), an error when the
\* share path is not a directory at that moment
SmbInitialize ==
    \E accessible \in BOOLEAN :
        /\ smb_provider' = IF accessible THEN "mounted" ELSE "new"
        /\ Returns("initialize", Smb, IF accessible THEN "Ok" ELSE "SmbNotAccessible")

\* SambaProvider::list_files
SmbListFiles ==
    /\ Returns("list_files", Smb,
               IF smb_provider = "mounted" THEN "Ok" ELSE "SmbNotAccessible")
    /\ UNCHANGED smb_provider

\* SambaProvider::get_metadata
SmbGetMetadata ==
    /\ Returns("get_metadata", Smb,
               IF smb_provider = "mounted" THEN "Ok" ELSE "SmbNotAccessible")
    /\ UNCHANGED smb_provider

\* SambaProvider::exists: Ok(full_path.exists())
SmbExists ==
    /\ Returns("exists", Smb, "Ok")
    /\ UNCHANGED smb_provider

\* download(path, dest) of provider l: the file is written to dest; a copy
\* of a file that is being rewritten may hold either content
Download(l, p) ==
    /\ Len(calls) < MaxCalls
    /\ IF files[l][p] = Absent
       THEN /\ calls' = Append(calls, Call("download", l, "none", NoHash,
                                           IF l = GoogleDrive THEN "FileNotFound" ELSE "Io"))
            /\ UNCHANGED staging
       ELSE \E w \in Contents, advertised \in Advertised(l, files[l][p]) :
              /\ staging' = w
              /\ calls' = Append(calls, Call("download", l, "none", advertised,
                                             download(l, advertised, w)))
    /\ UNCHANGED <<world, command, engine, edits, runs, failures, file_states, upserts, h,
                   others>>

\* LocalFsProvider::download
LocalDownload == Download(Local, CallPath)

\* GoogleDriveProvider::download
GdriveDownload == Download(GoogleDrive, CallPath)

\* SambaProvider::download
SmbDownload == Download(Smb, CallPath)

\* SambaProvider::upload(source, dest): fs::copy of the staging file
SmbUpload ==
    /\ Len(calls) < MaxCalls
    /\ IF staging = Absent
       THEN /\ calls' = Append(calls, Call("upload", Smb, "none", NoHash, "Io"))
            /\ UNCHANGED files
       ELSE /\ files' = [files EXCEPT ![Smb][CallPath] = staging]
            /\ calls' = Append(calls, Call("upload", Smb, "none", NoHash, "Ok"))
    /\ UNCHANGED <<baseline, command, engine, edits, runs, failures, file_states, upserts,
                   staging, h, others>>

\* SambaProvider::delete: fs::remove_file
SmbDelete ==
    /\ Len(calls) < MaxCalls
    /\ IF files[Smb][CallPath] = Absent
       THEN /\ calls' = Append(calls, Call("delete", Smb, "none", NoHash, "Io"))
            /\ UNCHANGED files
       ELSE /\ files' = [files EXCEPT ![Smb][CallPath] = Absent]
            /\ calls' = Append(calls, Call("delete", Smb, "none", NoHash, "Ok"))
    /\ UNCHANGED <<baseline, command, engine, edits, runs, failures, file_states, upserts,
                   staging, h, others>>

\* SyncEngine::transfer_file: download to a temp file, hash it for the log,
\* upload it, remove it; `?` on the download leaves the temp file behind
TransferFile(from, to, p) ==
    /\ Len(calls) < MaxCalls
    /\ from # to
    /\ get_provider(from) /\ get_provider(to)
    /\ files[from][p] # Absent
    /\ \E w \in Contents, advertised \in Advertised(from, files[from][p]) :
          /\ calls' = Append(calls, Call("transfer_file", from, to, advertised,
                                         download(from, advertised, w)))
          /\ IF download(from, advertised, w) = "Ok"
             THEN /\ files' = [files EXCEPT ![to][p] = w]
                  /\ staging' = Absent
             ELSE /\ staging' = w
                  /\ UNCHANGED files
    /\ UNCHANGED <<baseline, command, engine, edits, runs, failures, file_states, upserts, h,
                   others>>

NextProvider ==
    \/ SmbInitialize
    \/ SmbListFiles
    \/ SmbGetMetadata
    \/ SmbExists
    \/ LocalDownload
    \/ GdriveDownload
    \/ SmbDownload
    \/ SmbUpload
    \/ SmbDelete
    \/ \E from, to \in Loc : TransferFile(from, to, CallPath)
    \/ \E l \in Loc, c \in Contents \cup {Absent} : ExternalEdit(l, CallPath, c)

SpecProvider == InitProvider /\ [][NextProvider]_vars


\* ------------------------------------- ConflictResolver::detect_conflicts
\* Everything the synchronisation, the database layer and the providers hold
sync_state == <<world, command, engine, edits, runs, failures, h,
                file_states, upserts, staging, calls>>

\* No synchronisation, no database call and no provider call has taken place
NoSyncState ==
    /\ files = [l \in Loc |-> [p \in Paths |-> Absent]]
    /\ baseline = [p \in Paths |-> [l \in Loc |-> NoRow]]
    /\ is_syncing = FALSE
    /\ pc = [t \in Tasks |-> "idle"]
    /\ ret = [t \in Tasks |-> NoRet]
    /\ gdrive_provider = FALSE /\ smb_provider = "none"
    /\ NoEngineRun
    /\ file_states = {} /\ upserts = <<>> /\ staging = Absent /\ calls = <<>>
    /\ edits = 0 /\ runs = 0 /\ failures = 0
    /\ h = NoHistory

\* Option<&str>: None, or a hash string of either kind
OptionalHashes ==
    {NoHash} \cup {compute_file_hash(c) : c \in Contents}
             \cup {compute_file_md5(c) : c \in Contents}

\* Faulty variant: an absent hash counts as a value of its own
detect_conflicts_counting_none(local_hash, gdrive_hash, smb_hash) ==
    IF Cardinality({local_hash, gdrive_hash, smb_hash}) <= 1
    THEN <<>>
    ELSE <<[file_path |-> 0, local_hash |-> local_hash,
            gdrive_hash |-> gdrive_hash, smb_hash |-> smb_hash]>>

\* detect_conflicts: <<>> is None, <<c>> is Some(c); file_path is the empty
\* string (0, as in NoConflictInfo)
detect_conflicts(local_hash, gdrive_hash, smb_hash) ==
    LET unique_hashes == {x \in {local_hash, gdrive_hash, smb_hash} : x # NoHash}
    IN IF Cardinality(unique_hashes) <= 1
       THEN <<>>
       ELSE <<[file_path |-> 0, local_hash |-> local_hash,
               gdrive_hash |-> gdrive_hash, smb_hash |-> smb_hash]>>

\* A caller is about to apply detect_conflicts to three optional hashes
InitConflict ==
    /\ NoSyncState
    /\ oauth = NoFlow /\ keychain = NoKeychain /\ now = 0
    /\ \E l, g, s \in OptionalHashes :
          eval = [f |-> "detect_conflicts", local_hash |-> l, gdrive_hash |-> g,
                  smb_hash |-> s, returned |-> FALSE, value |-> <<>>]

DetectConflicts ==
    /\ eval.f = "detect_conflicts" /\ ~eval.returned
    /\ eval' = [eval EXCEPT !.returned = TRUE,
                            !.value = detect_conflicts(eval.local_hash, eval.gdrive_hash,
                                                       eval.smb_hash)]
    /\ UNCHANGED <<sync_state, oauth, keychain, now>>

NextConflict == DetectConflicts

SpecConflict == InitConflict /\ [][NextConflict]_vars


\* ------------------------------------------ file_hasher::verify_file_hash
\* Characters of the digest strings a caller may pass
DigestLen == 2
MaxExpectedLen == 3
HexDigits == <<"0", "1", "2", "3", "4", "5", "6", "7", "8", "9",
               "a", "b", "c", "d", "e", "f">>
UpperCase == <<"A", "B", "C", "D", "E", "F", "G">>
LowerCase == <<"a", "b", "c", "d", "e", "f", "g">>
ExpectedChars == {"a", "A", "b", "B", "1", "g"}
ExpectedHashes == UNION {[1..n -> ExpectedChars] : n \in 0..MaxExpectedLen}

\* Sha256::finalize, shortened to DigestLen half-bytes: different contents
\* have different digests
Sha256(c) == [i \in 1..DigestLen |-> IF i = 1 THEN 9 + c ELSE 1]

\* hex::encode: lower-case digits
hex_encode(digest) == [i \in 1..Len(digest) |-> HexDigits[digest[i] + 1]]

\* compute_file_hash, as the string it returns
compute_file_hash_string(c) == hex_encode(Sha256(c))

\* u8::to_ascii_lowercase
to_ascii_lowercase(ch) ==
    IF \E i \in 1..Len(UpperCase) : UpperCase[i] = ch
    THEN LowerCase[CHOOSE i \in 1..Len(UpperCase) : UpperCase[i] = ch]
    ELSE ch

\* str::eq_ignore_ascii_case
eq_ignore_ascii_case(a, b) ==
    /\ Len(a) = Len(b)
    /\ \A i \in 1..Len(a) : to_ascii_lowercase(a[i]) = to_ascii_lowercase(b[i])

\* Faulty variant: the strings are compared as they are
verify_file_hash_exact(c, expected_hash) ==
    IF c = Absent
    THEN [ok |-> FALSE, value |-> FALSE]
    ELSE [ok |-> TRUE, value |-> compute_file_hash_string(c) = expected_hash]

\* verify_file_hash(path, expected_hash) on a file of content c; a file that
\* cannot be opened is the error of compute_file_hash
verify_file_hash(c, expected_hash) ==
    IF c = Absent
    THEN [ok |-> FALSE, value |-> FALSE]
    ELSE [ok |-> TRUE,
          value |-> eq_ignore_ascii_case(compute_file_hash_string(c), expected_hash)]

\* A caller is about to verify a file, present or not, against a string
InitVerify ==
    /\ NoSyncState
    /\ oauth = NoFlow /\ keychain = NoKeychain /\ now = 0
    /\ \E c \in Contents \cup {Absent}, e \in ExpectedHashes :
          eval = [f |-> "verify_file_hash", content |-> c, expected_hash |-> e,
                  returned |-> FALSE, value |-> [ok |-> FALSE, value |-> FALSE]]

VerifyFileHash ==
    /\ eval.f = "verify_file_hash" /\ ~eval.returned
    /\ eval' = [eval EXCEPT !.returned = TRUE,
                            !.value = verify_file_hash(eval.content, eval.expected_hash)]
    /\ UNCHANGED <<sync_state, oauth, keychain, now>>

NextVerify == VerifyFileHash

SpecVerify == InitVerify /\ [][NextVerify]_vars


\* ------------------------------------------- AuthManager::authenticate
\* The clock runs to MaxNow seconds, in steps of ClockStep seconds
MaxNow == 500
ClockStep == 100
CALLBACK_TIMEOUT == 300
\* Seconds before expiry from which a token is refreshed
REFRESH_MARGIN == 300

CsrfTokens == 1..2
AccessTokens == 1..2
RefreshTokens == 1..2
\* StandardTokenResponse: access_token, refresh_token(), expires_in()
TokenResponses ==
    [access_token : AccessTokens, refresh_token : {<<>>, <<2>>},
     expires_in : {<<>>, <<REFRESH_MARGIN>>, <<3600>>}]
\* OAuthCredentials { client_id, client_secret } of the embedded defaults
DefaultCredentials == <<[client_id |-> "default", client_secret |-> "default"]>>

\* What a client of the loopback port sends after connecting: a request
\* line (its number of whitespace-separated parts, its path, its `code` and
\* `state` parameters, absent, empty or with a value), nothing at all, or a
\* connection that fails on read
Requests ==
    [sends : {"line"}, parts : 1..3, path : {"/oauth/callback", "/favicon.ico"},
     code : {<<>>, <<0>>, <<1>>}, state : {<<>>, <<0>>, <<1>>, <<2>>}]
    \cup {[NoRequest EXCEPT !.sends = "nothing"], [NoRequest EXCEPT !.sends = "reset"]}

\* What read_line returns at end of stream: Ok(0), the line stays empty
EmptyLine == [NoRequest EXCEPT !.sends = "line"]

\* parse_callback: Some(OAuthCallback) when the line has a method and a path
\* under /oauth/callback with non-empty code and state parameters
parse_callback(request_line) ==
    IF request_line.parts < 2 THEN <<>>
    ELSE IF request_line.path # "/oauth/callback" THEN <<>>
    ELSE IF request_line.code = <<>> \/ request_line.state = <<>> THEN <<>>
    ELSE IF request_line.code = <<0>> \/ request_line.state = <<0>> THEN <<>>
    ELSE <<[code |-> request_line.code[1], state |-> request_line.state[1]]>>

\* Faulty variant: the state of the callback is not compared
csrf_unchecked(callback) == TRUE

\* callback.state != *csrf_token.secret(), negated
csrf_matches(callback) == callback.state = oauth.csrf_token

\* authenticate returns Err(OAuthError); its locals, the listener among
\* them, are dropped
AuthError ==
    [oauth EXCEPT !.pc = "returned", !.ret = "OAuthError", !.listener = "none",
                  !.backlog = NoRequest, !.socket = NoRequest]

\* A keychain before authenticate: empty, or with the entries of an earlier
\* authentication
Keychains ==
    {NoKeychain,
     [tokens |-> <<[access_token |-> 1, refresh_token |-> <<1>>, expires_at |-> <<>>]>>,
      credentials |-> DefaultCredentials]}

InitAuth ==
    /\ NoSyncState
    /\ oauth = NoFlow /\ now = 0 /\ eval = NoEval
    /\ keychain \in Keychains

\* authenticate up to the construction of the callback server: the client,
\* the PKCE challenge, the authorization URL with a random CSRF token, and
\* OAuthCallbackServer::new(8080), which stores the port
Authenticate ==
    /\ oauth.pc = "idle"
    /\ \E t \in CsrfTokens : oauth' = [oauth EXCEPT !.pc = "open_browser", !.csrf_token = t]
    /\ UNCHANGED <<sync_state, keychain, now, eval>>

\* open::that(auth_url)
OpenBrowser ==
    /\ oauth.pc = "open_browser"
    /\ \/ oauth' = [oauth EXCEPT !.pc = "bind", !.browser = TRUE]
       \/ oauth' = AuthError
    /\ UNCHANGED <<sync_state, keychain, now, eval>>

\* wait_for_callback: TcpListener::bind on the port, or its error
Bind ==
    /\ oauth.pc = "bind"
    /\ \/ oauth' = [oauth EXCEPT !.pc = "accept", !.listener = "bound", !.bound_at = now]
       \/ oauth' = AuthError
    /\ UNCHANGED <<sync_state, keychain, now, eval>>

\* The browser that was opened, or another local client, connects to the
\* redirect port: the connection waits in the backlog of a bound listener,
\* and is refused when nothing listens
Connect(request) ==
    /\ oauth.browser /\ oauth.pc # "returned"
    /\ oauth.backlog = NoRequest /\ oauth.socket = NoRequest /\ ~oauth.refused
    /\ IF oauth.listener = "bound"
       THEN oauth' = [oauth EXCEPT !.backlog = request]
       ELSE oauth' = [oauth EXCEPT !.refused = TRUE]
    /\ UNCHANGED <<sync_state, keychain, now, eval>>

\* timeout(CALLBACK_TIMEOUT, listener.accept()): a connection
Accept ==
    /\ oauth.pc = "accept" /\ oauth.backlog # NoRequest
    /\ oauth' = [oauth EXCEPT !.pc = "read_line", !.socket = oauth.backlog,
                              !.backlog = NoRequest]
    /\ UNCHANGED <<sync_state, keychain, now, eval>>

\* timeout(CALLBACK_TIMEOUT, listener.accept()): the error of accept, or
\* the timeout
AcceptFails ==
    /\ oauth.pc = "accept"
    /\ \/ oauth.backlog # NoRequest
       \/ now - oauth.bound_at >= CALLBACK_TIMEOUT
    /\ oauth' = AuthError
    /\ UNCHANGED <<sync_state, keychain, now, eval>>

\* reader.read_line, parse_callback, the response, tx.send, rx.await.  With
\* a callback sent rx.await returns it.  Without one (the line does not
\* parse, or read_line failed) nothing is sent, and the sender stays alive
\* in the local `tx` until the function returns: rx.await does not return.
ReadLine ==
    /\ oauth.pc = "read_line" /\ oauth.socket.sends \in {"line", "reset"}
    /\ LET callback == IF oauth.socket.sends = "line"
                       THEN parse_callback(oauth.socket) ELSE <<>>
       IN oauth' = [oauth EXCEPT !.pc = IF callback = <<>> THEN "rx_await" ELSE "verify_csrf",
                                 !.callback = callback]
    /\ UNCHANGED <<sync_state, keychain, now, eval>>

\* The client that sent nothing closes its connection: end of stream
PeerCloses ==
    /\ oauth.pc = "read_line" /\ oauth.socket.sends = "nothing"
    /\ oauth' = [oauth EXCEPT !.socket = EmptyLine]
    /\ UNCHANGED <<sync_state, keychain, now, eval>>

\* The CSRF check
VerifyCsrf ==
    /\ oauth.pc = "verify_csrf"
    /\ IF csrf_matches(oauth.callback[1])
       THEN oauth' = [oauth EXCEPT !.pc = "exchange_code"]
       ELSE oauth' = AuthError
    /\ UNCHANGED <<sync_state, keychain, now, eval>>

\* exchange_code(..).request_async(..): a token response, or an error
ExchangeCode ==
    /\ oauth.pc = "exchange_code"
    /\ \/ \E r \in TokenResponses :
             oauth' = [oauth EXCEPT
                         !.pc = "store_tokens", !.exchanged = TRUE,
                         !.tokens = [access_token |-> r.access_token,
                                     refresh_token |-> r.refresh_token,
                                     expires_at |-> IF r.expires_in = <<>> THEN <<>>
                                                    ELSE <<now + r.expires_in[1]>>]]
       \/ oauth' = [AuthError EXCEPT !.exchanged = TRUE]
    /\ UNCHANGED <<sync_state, keychain, now, eval>>

\* token_manager.store_tokens(&tokens)?
StoreTokens ==
    /\ oauth.pc = "store_tokens"
    /\ \/ /\ keychain' = [keychain EXCEPT !.tokens = <<oauth.tokens>>]
          /\ oauth' = [oauth EXCEPT !.pc = "store_credentials"]
       \/ /\ oauth' = AuthError
          /\ UNCHANGED keychain
    /\ UNCHANGED <<sync_state, now, eval>>

\* credential_manager.store_credentials(..)?, then Ok(tokens)
StoreCredentials ==
    /\ oauth.pc = "store_credentials"
    /\ \/ /\ keychain' = [keychain EXCEPT !.credentials = DefaultCredentials]
          /\ oauth' = [oauth EXCEPT !.pc = "returned", !.ret = "Ok", !.listener = "none"]
       \/ /\ oauth' = AuthError
          /\ UNCHANGED keychain
    /\ UNCHANGED <<sync_state, now, eval>>

\* Time passes while wait_for_callback waits.  The timer of accept fires at
\* its deadline; read_line and rx.await have no timer.
Tick ==
    /\ oauth.pc \in {"accept", "read_line", "rx_await"}
    /\ now < MaxNow
    /\ LET deadline == oauth.bound_at + CALLBACK_TIMEOUT
           later == IF now + ClockStep > MaxNow THEN MaxNow ELSE now + ClockStep
       IN IF oauth.pc = "accept"
          THEN now < deadline /\ now' = (IF later > deadline THEN deadline ELSE later)
          ELSE now' = later
    /\ UNCHANGED <<sync_state, oauth, keychain, eval>>

NextAuth ==
    \/ Authenticate
    \/ OpenBrowser
    \/ Bind
    \/ \E request \in Requests : Connect(request)
    \/ Accept
    \/ AcceptFails
    \/ ReadLine
    \/ PeerCloses
    \/ VerifyCsrf
    \/ ExchangeCode
    \/ StoreTokens
    \/ StoreCredentials
    \/ Tick

SpecAuth == InitAuth /\ [][NextAuth]_vars


\* --------------------------- get_access_token, get_valid_token, refresh_token
\* Authenticated calls made in one behaviour
MaxTokenCalls == 2

NoTokenCall ==
    [f |-> "get_access_token", pc |-> "idle", tokens |-> NoTokens, checked_at |-> 0,
     exchanged |-> FALSE, response |-> <<>>, calls |-> 0, ret |-> "none", value |-> 0]

\* Variant: a token that expires in exactly REFRESH_MARGIN seconds is
\* refreshed as well
expiring_inclusive(tokens) ==
    tokens.expires_at # <<>> /\ tokens.expires_at[1] - now <= REFRESH_MARGIN

\* if let Some(expires_at) = tokens.expires_at { if expires_at - now < 300
expiring(tokens) ==
    tokens.expires_at # <<>> /\ tokens.expires_at[1] - now < REFRESH_MARGIN

\* Faulty variant: the refresh token of the response is stored as it is
new_tokens_without_fallback(tokens, response) ==
    [access_token |-> response.access_token,
     refresh_token |-> response.refresh_token,
     expires_at |-> IF response.expires_in = <<>> THEN <<>>
                    ELSE <<now + response.expires_in[1]>>]

\* refresh_token: the OAuthTokens built from the response
new_tokens(tokens, response) ==
    [access_token |-> response.access_token,
     refresh_token |-> IF response.refresh_token # <<>> THEN response.refresh_token
                       ELSE tokens.refresh_token,
     expires_at |-> IF response.expires_in = <<>> THEN <<>>
                    ELSE <<now + response.expires_in[1]>>]

\* The keychain holds the tokens of an authentication; an authenticated
\* call is about to be made
InitToken ==
    /\ NoSyncState
    /\ oauth = NoFlow /\ now = 0
    /\ eval = NoTokenCall
    /\ \E r \in {<<>>, <<1>>},
          e \in {<<>>, <<0>>, <<REFRESH_MARGIN - 1>>, <<REFRESH_MARGIN>>,
                 <<REFRESH_MARGIN + 1>>} :
          keychain = [tokens |-> <<[access_token |-> 1, refresh_token |-> r,
                                    expires_at |-> e]>>,
                      credentials |-> DefaultCredentials]

\* The call returns
TokenReturn(outcome, token) ==
    [eval EXCEPT !.pc = "returned", !.ret = outcome, !.value = token]

\* GoogleDriveProvider::get_access_token
GetAccessToken ==
    /\ eval.f = "get_access_token" /\ eval.pc \in {"idle", "returned"}
    /\ eval.calls < MaxTokenCalls
    /\ LET tokens == keychain.tokens[1]
           call == [NoTokenCall EXCEPT !.calls = eval.calls + 1, !.tokens = tokens,
                                       !.checked_at = now]
       IN eval' = IF expiring(tokens)
                  THEN [call EXCEPT !.pc = "get_valid_token"]
                  ELSE [call EXCEPT !.pc = "returned", !.ret = "Ok",
                                    !.value = tokens.access_token]
    /\ UNCHANGED <<sync_state, oauth, keychain, now>>

\* AuthManager::get_valid_token, called by get_access_token
GetValidToken ==
    /\ eval.f = "get_access_token" /\ eval.pc = "get_valid_token"
    /\ LET tokens == keychain.tokens[1]
       IN eval' = IF expiring(tokens)
                  THEN [eval EXCEPT !.pc = "refresh_token", !.tokens = tokens]
                  ELSE TokenReturn("Ok", tokens.access_token)
    /\ UNCHANGED <<sync_state, oauth, keychain, now>>

\* AuthManager::refresh_token up to the response: no refresh token, or the
\* request, answered or failed
ExchangeRefreshToken ==
    /\ eval.f = "get_access_token" /\ eval.pc = "refresh_token"
    /\ IF eval.tokens.refresh_token = <<>>
       THEN eval' = TokenReturn("OAuthError", 0)
       ELSE \/ \E r \in TokenResponses :
                  eval' = [eval EXCEPT !.pc = "store_tokens", !.exchanged = TRUE,
                                       !.response = <<r>>]
            \/ eval' = [TokenReturn("OAuthError", 0) EXCEPT !.exchanged = TRUE]
    /\ UNCHANGED <<sync_state, oauth, keychain, now>>

\* AuthManager::refresh_token from the response on: new_tokens, store_tokens
\* and Ok(new_tokens), or the error of store_tokens
StoreRefreshed ==
    /\ eval.f = "get_access_token" /\ eval.pc = "store_tokens"
    /\ \/ /\ keychain' = [keychain EXCEPT
                            !.tokens = <<new_tokens(eval.tokens, eval.response[1])>>]
          /\ eval' = TokenReturn("Ok", eval.response[1].access_token)
       \/ /\ eval' = TokenReturn("KeyringError", 0)
          /\ UNCHANGED keychain
    /\ UNCHANGED <<sync_state, oauth, now>>

\* Time passes between and during the calls
TokenTick ==
    /\ eval.f = "get_access_token"
    /\ now < MaxNow
    /\ now' = (IF now + ClockStep > MaxNow THEN MaxNow ELSE now + ClockStep)
    /\ UNCHANGED <<sync_state, oauth, keychain, eval>>

NextToken ==
    \/ GetAccessToken
    \/ GetValidToken
    \/ ExchangeRefreshToken
    \/ StoreRefreshed
    \/ TokenTick

SpecToken == InitToken /\ [][NextToken]_vars


\* ------------------------------------------------- SyncEngine::has_changed
\* The hex digests of the contents as strings, in lower case as
\* compute_file_hash returns them and in upper case
to_ascii_uppercase(ch) ==
    IF \E i \in 1..Len(LowerCase) : LowerCase[i] = ch
    THEN UpperCase[CHOOSE i \in 1..Len(LowerCase) : LowerCase[i] = ch]
    ELSE ch
HashStrings ==
    UNION {{compute_file_hash_string(c),
            [i \in 1..DigestLen |-> to_ascii_uppercase(compute_file_hash_string(c)[i])]} :
           c \in Contents}

\* has_changed is about to be applied at one location: to the entry of a
\* path in the scan, absent, without a hash or with one, and to the
\* content_hash of the path's file_states row as get_last_known_state
\* reads it (no row and a row with a NULL hash both give None)
InitChanged ==
    /\ NoSyncState
    /\ oauth = NoFlow /\ keychain = NoKeychain /\ now = 0
    /\ \E l \in Loc,
          current \in {NoSnapshot, FileSnapshot(NoHash)} \cup {FileSnapshot(x) : x \in HashStrings},
          row \in {NoRow, FileState(NoHash)} \cup {FileState(x) : x \in HashStrings} :
          eval = [f |-> "has_changed", location |-> l, current |-> current, row |-> row,
                  known |-> row.content_hash, returned |-> FALSE, value |-> FALSE]

HasChanged ==
    /\ eval.f = "has_changed" /\ ~eval.returned
    /\ eval' = [eval EXCEPT !.returned = TRUE,
                            !.value = has_changed(eval.current, eval.known)]
    /\ UNCHANGED <<sync_state, oauth, keychain, now>>

NextChanged == HasChanged

SpecChanged == InitChanged /\ [][NextChanged]_vars


\* ------------------------------------------- list_files with a subfolder
\* An engine over both remotes, on trees settled between the local tree
\* and the cloud folder, whose listings may lose a subfolder
InitListing ==
    /\ InitWorld
    /\ \A p \in Paths : files[Local][p] # Absent
    /\ gdrive_provider = TRUE
    /\ smb_provider \in {"none", "mounted"}

ListingSubfolderFails ==
    /\ ScanSubfolderFails

NextListing ==
    \/ NextEngine
    \/ ListingSubfolderFails

SpecListing == InitListing /\ [][NextListing]_vars


\* ============================================================ properties
\* The run has ended with an error of update_last_known_state.
CommitFailed ==
    phase = "done" /\ result.outcome = "DatabaseError" /\ h.error = "none"

\* The safety check of the current run has been decided.
SafetyDecided ==
    \/ phase \in {"exec", "ops"}
    \/ phase = "done" /\ result.outcome \in {"Ok", "SyncFailed"}
    \/ CommitFailed

\* The plan of the current run has been computed.
PlanComputed == phase = "safety" \/ SafetyDecided

Snapshot(p, l) ==
    IF l = Local THEN local_files[p]
    ELSE IF l = GoogleDrive THEN gdrive_files[p] ELSE smb_files[p]
Known(p, l) ==
    IF l = Local THEN last_known_state[p].local
    ELSE IF l = GoogleDrive THEN last_known_state[p].gdrive ELSE last_known_state[p].smb

\* The locations classified as changed for p in the current run
ChangedLocs(p) == {l \in Loc : has_changed(Snapshot(p, l), Known(p, l))}

OpsOf(p) == {planned_actions[p].operations[i] : i \in DOMAIN planned_actions[p].operations}

\* ---- C1
\* The thresholds as the specification states them: more than 50 deletions,
\* or deletions above 30% of the scanned paths.
ThresholdBreached(deleted, total) == deleted > 50 \/ 10 * deleted > 3 * total

\* check_deletion_safety refuses exactly the breaching counts, for every plan
\* of up to 4 * MaxCount paths with up to two deletions per path.
SafetyRefusesBreach ==
    \A total \in 1..(4 * MaxCount), deleted \in 0..MaxCount :
        deleted <= 2 * total =>
            (check_deletion_safety(deleted, total) = "SyncFailed"
                <=> ThresholdBreached(deleted, total))

\* C1: whenever the plan holds more than 50 Deletes or more Deletes than 30%
\* of the scanned paths, start_sync ends with SyncFailed, and that run has
\* invoked no provider operation and written no baseline row.
C1_DeletionSafetyAborts ==
    /\ (runs = 0 /\ edits = 0) => SafetyRefusesBreach
    /\ (SafetyDecided /\ ThresholdBreached(deletion_count, total_files)) =>
          /\ phase = "done"
          /\ result.outcome = "SyncFailed"
          /\ h.ops = {}
          /\ baseline = h.base0

\* A run that planned a Delete among at most three paths and was refused.
C1_Witness ==
    /\ phase = "done" /\ result.outcome = "SyncFailed"
    /\ deletion_count >= 1
    /\ ThresholdBreached(deletion_count, total_files)

\* ---- C2
InProgress(t) == pc[t] # "idle"

MutualExclusion ==
    /\ Cardinality({t \in Tasks : InProgress(t)}) <= 1
    /\ (\E t \in Tasks : InProgress(t)) => is_syncing

\* An invocation that arrives while another one is in progress returns
\* "Sync already in progress" and changes nothing else.
OverlappingIsRejected ==
    \A t \in Tasks :
        (/\ ~InProgress(t)
         /\ \E u \in Tasks \ {t} : InProgress(u)
         /\ (pc'[t] # pc[t] \/ ret'[t] # ret[t]))
        => /\ ret'[t] = Err("Sync already in progress")
           /\ UNCHANGED <<world, is_syncing, pc, engine, runs, h>>

\* C2: of two overlapping invocations of the start_sync command one is past
\* the is_syncing check and the other returns "Sync already in progress"
\* without scanning, touching a provider or writing the baseline; two runs are
\* never past the check together.
C2_MutualExclusion == [](MutualExclusion) /\ [][OverlappingIsRejected]_vars

\* One invocation is executing its plan and the other has been rejected.
C2_Witness ==
    \E t, u \in Tasks :
        /\ pc[t] = "engine" /\ phase = "exec"
        /\ pc[u] = "idle" /\ ret[u] = Err("Sync already in progress")

\* ---- C4
\* C4: a path with at most one location classified as changed is planned as
\* NoAction or as a list of Upload/Delete operations, never as Conflict.
C4_SingleChangeNeverConflict ==
    PlanComputed =>
        \A p \in all_paths :
            Cardinality(ChangedLocs(p)) <= 1 =>
                /\ planned_actions[p].kind \in {"NoAction", "Sync"}
                /\ \A op \in OpsOf(p) : op.kind \in {"Upload", "Delete"}

\* Exactly one location changed and operations were planned for the path.
C4_Witness ==
    /\ PlanComputed
    /\ \E p \in all_paths :
          Cardinality(ChangedLocs(p)) = 1 /\ planned_actions[p].kind = "Sync"

\* ---- C5
\* Two changed locations hold different non-null hashes.
ChangedDisagree(p) ==
    \E a, b \in ChangedLocs(p) :
        /\ Snapshot(p, a).present /\ Snapshot(p, b).present
        /\ Snapshot(p, a).hash # NoHash /\ Snapshot(p, b).hash # NoHash
        /\ Snapshot(p, a).hash # Snapshot(p, b).hash

Attempted == {e.op : e \in h.ops}
FailedPaths == {e.op.path : e \in {x \in h.ops : ~x.ok}}

\* The current run has returned Ok with no failed operation, and no tree was
\* changed from outside while it ran.
CleanRunDone ==
    /\ phase = "done" /\ result.outcome = "Ok"
    /\ result.files_failed = 0
    /\ ~h.edited

\* C3: a run that follows a completed run, with no external change in
\* between and no operation failing, executes no Upload and no Delete and
\* returns an empty conflicts list.
C3_SecondRunIsIdle ==
    (h.second /\ CleanRunDone) =>
        /\ Attempted = {}
        /\ result.conflicts = <<>>

\* ---- C6
Configured == {l \in Loc : get_provider(l)}

\* Every path is present with the same content at every configured location
\* or absent from all of them.
Agreement ==
    \A p \in Paths : \A a, b \in Configured : files[a][p] = files[b][p]

\* A run that changed nothing: no operation, no conflict, no baseline row
\* changed by its commit, no outside change.  The next run reads the same
\* trees and the same baseline, so every later run is this run again.
QuiescentRun ==
    /\ CleanRunDone
    /\ Attempted = {}
    /\ result.conflicts = <<>>
    /\ baseline = h.base0

\* C6: with no external change, no failure and no Conflict, consecutive runs
\* reach agreement after finitely many of them; so a run after which nothing
\* can change any more has the configured locations in agreement.
C6_QuiescentRunsAgree == QuiescentRun => Agreement

\* ---- C7
\* The hash location l advertised for p when the current run started
HashAtStart(l, p) ==
    IF h.files0[l][p] = Absent THEN NoHash ELSE ProviderHash(l, h.files0[l][p])

ChangedAtStart(l, p) ==
    has_changed(IF h.files0[l][p] = Absent THEN NoSnapshot
                ELSE FileSnapshot(HashAtStart(l, p)),
                h.base0[p][l].content_hash)

\* When the run started, a held a copy of p whose hash differs from its
\* baseline hash, no other location had changed, and b held the content the
\* baseline records for a.
ModifiedAtOnly(a, b, p) ==
    /\ a # b /\ a \in Configured /\ b \in Configured
    /\ h.files0[a][p] # Absent /\ h.base0[p][a].row
    /\ {l \in Loc : ChangedAtStart(l, p)} = {a}
    /\ h.files0[b][p] # Absent
    /\ h.base0[p][a].content_hash = ProviderHash(a, h.files0[b][p])

\* C7: when exactly one location's copy differs from its baseline hash and
\* another configured location holds the old content, a run in which no
\* operation fails leaves that other location holding the modified content.
C7_ModificationPropagates ==
    CleanRunDone =>
        \A p \in Paths : \A a, b \in Loc :
            ModifiedAtOnly(a, b, p) => files[b][p] = h.files0[a][p]

\* ---- C8
KnownHashes(l) == {NoHash} \cup {ProviderHash(l, c) : c \in Contents}

\* With exactly one changed location: the plan is one Upload from it to each
\* other configured location lacking the path, or, the file being absent
\* there, one Delete at each other location holding the path; nothing else.
SingleSourcePlan(path, local, gdrive, smb, known, gp, sp, action) ==
    LET snap == [l \in Loc |-> IF l = Local THEN local
                               ELSE IF l = GoogleDrive THEN gdrive ELSE smb]
        kn == [l \in Loc |-> IF l = Local THEN known.local
                             ELSE IF l = GoogleDrive THEN known.gdrive ELSE known.smb]
        cfg == [l \in Loc |-> IF l = Local THEN TRUE
                              ELSE IF l = GoogleDrive THEN gp ELSE sp]
        changed == {l \in Loc : has_changed(snap[l], kn[l])}
    IN Cardinality(changed) = 1 =>
         LET src == CHOOSE l \in changed : TRUE
             expected ==
                 IF snap[src].present
                 THEN {Upload(src, l, path) :
                         l \in {x \in Loc \ {src} : cfg[x] /\ ~snap[x].present}}
                 ELSE {Delete(l, path) :
                         l \in {x \in Loc \ {src} : snap[x].present}}
             ops == action.operations
         IN /\ action.kind # "Conflict"
            /\ {ops[i] : i \in DOMAIN ops} = expected
            /\ Len(ops) = Cardinality(expected)

\* determine_sync_action on every combination of snapshots and baseline
\* hashes of one path
SingleSourcePlanEverywhere ==
    \A gp \in BOOLEAN, sp \in BOOLEAN :
      \A local \in LocalSnapshots,
         gdrive \in (IF gp THEN GdriveSnapshots ELSE {NoSnapshot}),
         smb \in (IF sp THEN SmbSnapshots ELSE {NoSnapshot}),
         kl \in KnownHashes(Local), kg \in KnownHashes(GoogleDrive),
         ks \in KnownHashes(Smb) :
           LET known == [local |-> kl, gdrive |-> kg, smb |-> ks]
           IN SingleSourcePlan(PlanPath, local, gdrive, smb, known, gp, sp,
                  determine_sync_action(PlanPath, local, gdrive, smb, known, gp, sp))

\* The paths whose plan was carried out without a failure
SucceededPaths ==
    {p \in all_paths : planned_actions[p].kind # "Conflict" /\ p \notin FailedPaths}

\* C8: with exactly one changed location the plan of a path is one Upload to
\* each other configured location lacking it, or one Delete at each other
\* location holding it, and nothing else; a path whose plan succeeded counts
\* once in files_synced.
C8_SingleSourcePlan ==
    /\ (runs = 0 /\ edits = 0) => SingleSourcePlanEverywhere
    /\ PlanComputed =>
          \A p \in all_paths :
              SingleSourcePlan(p, local_files[p], gdrive_files[p], smb_files[p],
                               last_known_state[p], gdrive_provider,
                               smb_provider # "none", planned_actions[p])
    /\ (phase = "done" /\ result.outcome = "Ok") =>
          result.files_synced = Cardinality(SucceededPaths)

\* A new local file was uploaded to the cloud folder and to the share, and
\* the run counted the path as synced.
C8_Witness ==
    /\ phase = "done" /\ result.outcome = "Ok"
    /\ \E p \in all_paths :
          /\ ChangedLocs(p) = {Local}
          /\ planned_actions[p].operations =
                <<Upload(Local, GoogleDrive, p), Upload(Local, Smb, p)>>
          /\ \A op \in OpsOf(p) : [op |-> op, ok |-> TRUE] \in h.ops
          /\ p \in SucceededPaths
    /\ result.files_synced >= 1

\* ---- C9
ConflictPaths == {p \in all_paths : planned_actions[p].kind = "Conflict"}

Occurrences(seq, x) == Cardinality({i \in DOMAIN seq : seq[i] = x})

\* C9: no operation is executed in a run for a path the run classified as
\* Conflict, and the path appears exactly once in the conflicts list the run
\* returns.
C9_ConflictsAreReportedUntouched ==
    /\ SafetyDecided =>
          \A op \in Attempted : op.path \notin ConflictPaths
    /\ (phase = "done" /\ result.outcome = "Ok") =>
          \A p \in ConflictPaths :
              /\ Occurrences(SyncResultDto(result).conflicts, p) = 1
              /\ Occurrences([i \in DOMAIN result.conflicts |->
                                 result.conflicts[i].file_path], p) = 1

\* A run has returned with a path in its conflicts list, and the path is at
\* every location as it was when the run started.
C9_Witness ==
    /\ phase = "done" /\ result.outcome = "Ok"
    /\ \E p \in ConflictPaths :
          /\ SyncResultDto(result).conflicts = <<p>>
          /\ \A l \in Loc : files[l][p] = h.files0[l][p]

\* ---- C10
\* C10: after a failed operation every operation planned after it, the rest
\* of its own path's operations included, is still attempted; the failure
\* counts in files_failed; start_sync reaches the commit and returns a result.
C10_FailureDoesNotSkipOperations ==
    /\ (SafetyDecided /\ FailedPaths # {}) =>
          (result.outcome \in {"running", "Ok"} \/ CommitFailed)
    /\ (SafetyDecided /\ phase # "ops") =>
          result.files_failed = Cardinality(FailedPaths)
    /\ (phase = "done" /\ result.outcome = "Ok") =>
          \A p \in all_paths : OpsOf(p) \subseteq Attempted


\* ---- C11
\* What the listing of location l returns on the tree the run started with
ScanAtStart(l) ==
    [p \in Paths |-> IF h.files0[l][p] = Absent THEN NoSnapshot
                     ELSE FileSnapshot(HashAtStart(l, p))]

\* The provider of l is one start_sync lists
Listed(l) ==
    IF l = Local THEN TRUE
    ELSE IF l = GoogleDrive THEN gdrive_provider ELSE smb_provider = "mounted"

\* Every listing and the baseline load are complete once the plan exists.
ScansBeforePlan ==
    PlanComputed =>
        /\ \A l \in Loc : ScanOf(l) = IF Listed(l) THEN ScanAtStart(l) ELSE NoFiles
        /\ last_known_state =
              [p \in Paths |-> [local |-> h.base0[p][Local].content_hash,
                                gdrive |-> h.base0[p][GoogleDrive].content_hash,
                                smb |-> h.base0[p][Smb].content_hash]]

\* The whole plan and the safety check are complete once an operation has
\* been attempted.
PlanBeforeExecute ==
    Attempted # {} =>
        /\ SafetyDecided
        /\ check_deletion_safety(deletion_count, total_files) = "Ok"
        /\ \A p \in all_paths :
              planned_actions[p] =
                  determine_sync_action(p, local_files[p], gdrive_files[p], smb_files[p],
                                        last_known_state[p], gdrive_provider,
                                        smb_provider # "none")

\* C11: within a run every listing and the baseline load come before the
\* plan, the whole plan and the safety check before any provider operation,
\* and no baseline row is written until every planned operation has been
\* attempted.
C11_PhasesAreOrdered ==
    /\ ScansBeforePlan
    /\ PlanBeforeExecute
    /\ baseline # h.base0 => \A p \in all_paths : OpsOf(p) \subseteq Attempted

\* ---- C12
\* C12: when a listing of a configured provider or the baseline load returns
\* an error, start_sync returns that error, and the run has invoked no
\* provider operation and written no baseline row.
C12_PhaseErrorAborts ==
    h.error # "none" =>
        /\ phase = "done"
        /\ result.outcome = h.error
        /\ Attempted = {}
        /\ baseline = h.base0

\* The cloud listing failed after the local tree was listed.
C12_Witness ==
    /\ phase = "done"
    /\ h.error = "ProviderError"
    /\ local_files # NoFiles
    /\ gdrive_provider /\ gdrive_files = NoFiles

\* ---- C13
\* A completed commit has recorded every observed (path, location) with the
\* scanned hash and status Synced.
ObservedAreRecorded ==
    (phase = "done" /\ result.outcome = "Ok") =>
        \A p \in Paths, l \in Loc :
            ScanOf(l)[p].present =>
                /\ baseline[p][l].content_hash = ScanOf(l)[p].hash
                /\ baseline[p][l].status = "synced"
                /\ baseline[p][l].row

\* A step changes only rows of (path, location) pairs observed in the scans
\* of the run, and removes no row.
UnobservedAreKept ==
    \A p \in Paths, l \in Loc :
        /\ baseline'[p][l] # baseline[p][l] => ScanOf(l)[p].present
        /\ baseline[p][l].row => baseline'[p][l].row

\* C13: a commit leaves each observed (path, location) with the scanned hash
\* and status Synced, and never changes or removes the row of a
\* (path, location) the run did not observe.
C13_CommitUpsertsObservedOnly == [](ObservedAreRecorded) /\ [][UnobservedAreKept]_vars

\* A run has committed an observed file and kept the row of a file that is
\* gone from its location.
C13_Witness ==
    /\ phase = "done" /\ result.outcome = "Ok"
    /\ \E p \in Paths, l \in Loc : ScanOf(l)[p].present /\ Attempted # {}
    /\ \E p \in Paths, l \in Loc : baseline[p][l].row /\ ~ScanOf(l)[p].present

\* ---- C14
\* The location a path of the starting tree is present at
PresentAtStart(p) == {l \in Loc : h.files0[l][p] # Absent}

\* C14: a path that was gone from every location with baseline rows left and
\* came back at exactly one location, with the old or with new content, is
\* planned as a new file: Uploads from that location to every other
\* configured location, no Delete and no Conflict.
C14_ReappearanceIsNew ==
    PlanComputed =>
        \A p \in h.reappeared : \A l \in PresentAtStart(p) :
            /\ planned_actions[p].kind # "Conflict"
            /\ OpsOf(p) = {Upload(l, x, p) : x \in Configured \ {l}}

\* A path that came back is planned as a new file.
C14_Witness ==
    /\ PlanComputed
    /\ \E p \in h.reappeared : \E l \in PresentAtStart(p) :
          /\ planned_actions[p].kind = "Sync"
          /\ OpsOf(p) = {Upload(l, x, p) : x \in Configured \ {l}}

\* ---- C15
\* The upserts made so far with the key of row r
UpsertsOf(r) == {i \in DOMAIN upserts : RowKey(Params(upserts[i])) = RowKey(r)}

\* The most recent of them
LastUpsertOf(r) == upserts[CHOOSE i \in UpsertsOf(r) : \A j \in UpsertsOf(r) : j <= i]

\* C15: after any sequence of upsert_file_state calls the table holds at most
\* one row per (profile_id, file_path, location), and the hash, size,
\* modified and synced times and status of that row are those of the most
\* recent upsert of the key.
C15_UpsertKeepsOneRowPerKey ==
    /\ \A r, q \in file_states : RowKey(r) = RowKey(q) => r = q
    /\ \A i \in DOMAIN upserts :
          \E r \in file_states : RowKey(r) = RowKey(Params(upserts[i]))
    /\ \A r \in file_states :
          /\ UpsertsOf(r) # {}
          /\ LET v == Params(LastUpsertOf(r))
             IN /\ r.content_hash = v.content_hash
                /\ r.size_bytes = v.size_bytes
                /\ r.modified_at = v.modified_at
                /\ r.synced_at = v.synced_at
                /\ r.status = v.status

\* Two upserts of one key with different values have left one row.
C15_Witness ==
    /\ Len(upserts) = 2
    /\ RowKey(Params(upserts[1])) = RowKey(Params(upserts[2]))
    /\ upserts[1] # upserts[2]
    /\ Cardinality(file_states) = 1

\* ---- C16
\* C16: when a run follows a completed run with no external change in
\* between and no operation failing in either, the baseline after it is the
\* baseline the first run left, also when the first run uploaded files.
C16_BaselineIsIdempotent ==
    (h.second /\ CleanRunDone) => baseline = h.base0

\* ---- C17
\* The copies of p scanned at a and b are digests of the same content
MatchingCopies(p, a, b) ==
    /\ Snapshot(p, a).present /\ Snapshot(p, b).present
    /\ Snapshot(p, a).hash # NoHash /\ Snapshot(p, b).hash # NoHash
    /\ Snapshot(p, a).hash[2] = Snapshot(p, b).hash[2]

\* The operations planned for p that write or delete at a or b from the other
Between(p, a, b) ==
    {op \in OpsOf(p) : op.to \in {a, b} /\ op.from \in {a, b, "none"}}

ChangedAgree(p) ==
    /\ \A l \in ChangedLocs(p) : Snapshot(p, l).present /\ Snapshot(p, l).hash # NoHash
    /\ \A a, b \in ChangedLocs(p) : Snapshot(p, a).hash = Snapshot(p, b).hash

\* C18: when two or more locations changed for a path and every changed
\* location holds the file with the same hash, whichever locations they are,
\* the plan is not a Conflict: it is NoAction or Uploads to configured
\* locations that lack the file.
C18_AgreeingChangesNeverConflict ==
    PlanComputed =>
        \A p \in all_paths :
            (Cardinality(ChangedLocs(p)) >= 2 /\ ChangedAgree(p)) =>
                /\ planned_actions[p].kind # "Conflict"
                /\ \A op \in OpsOf(p) :
                      /\ op.kind = "Upload"
                      /\ op.to \in Configured
                      /\ ~Snapshot(p, op.to).present

\* ---- C19
\* The step is a call of op, and c is what the call returned
Called(c, op) ==
    /\ Len(calls') = Len(calls) + 1
    /\ c = calls'[Len(calls')]
    /\ c.op = op

\* A successful download of a file with an advertised hash has written
\* content that hashes to it; so a download that wrote other content fails.
DownloadIsVerified ==
    \A c \in {calls'[i] : i \in DOMAIN calls'} :
        (Called(c, "download") /\ c.advertised # NoHash /\ c.outcome = "Ok") =>
            ProviderHash(c.location, staging') = c.advertised

\* A successful transfer has uploaded content that hashes to the hash the
\* source advertised.
TransferIsVerified ==
    \A c \in {calls'[i] : i \in DOMAIN calls'} :
        (Called(c, "transfer_file") /\ c.advertised # NoHash /\ c.outcome = "Ok") =>
            ProviderHash(c.location, files'[c.to][CallPath]) = c.advertised

\* C19: for every provider a successful download of a file with an
\* advertised hash wrote content that hashes to it, a download that writes
\* other content returns an error, and the engine never uploads a staging
\* file whose content differs from the hash the source advertised.
C19_DownloadsAreVerified == [][DownloadIsVerified /\ TransferIsVerified]_vars

\* ---- C20
ShareOperations == {"list_files", "get_metadata", "exists", "download", "upload", "delete"}

\* C20: until initialize has confirmed the mount, every operation of the
\* share provider fails with SmbNotAccessible and changes nothing.
C20_UnmountedShareRefuses ==
    [][\A c \in {calls'[i] : i \in DOMAIN calls'} :
          (/\ \E op \in ShareOperations : Called(c, op)
           /\ c.location = Smb
           /\ smb_provider # "mounted") =>
              /\ c.outcome = "SmbNotAccessible"
              /\ files' = files
              /\ staging' = staging]_vars

\* ---- C28
\* The command returns the result of a run in which operations failed
ReturnsWithFailures(t) ==
    /\ pc[t] = "engine" /\ pc'[t] = "idle"
    /\ result.outcome = "Ok"
    /\ result.files_failed > 0

\* C28: when an Upload or Delete failed during the run, the result the
\* command returns to the host has a non-empty errors list, with one entry
\* per failed path.
C28_FailuresAreReported ==
    [][\A t \in Tasks :
          ReturnsWithFailures(t) =>
              /\ ret'[t].kind = "Ok"
              /\ Len(ret'[t].errors) = result.files_failed]_vars

\* ---- C30
\* C30: no Delete is planned because of a location the run does not list: a
\* path with a planned Delete has no change classified at a location whose
\* provider is absent from the engine.
C30_NoDeleteFromAbsentProvider ==
    PlanComputed =>
        \A p \in all_paths :
            (\E op \in OpsOf(p) : op.kind = "Delete") =>
                \A l \in ChangedLocs(p) : Listed(l)

\* ---- C26
\* The execute loop starts the iteration of path p
Iterates(p) ==
    /\ phase = "exec" /\ p \in todo
    /\ \/ phase' = "exec" /\ todo' = todo \ {p}
       \/ phase' = "ops" /\ cur'.path = p

\* The 'processing' calls made so far in the run
ProcessingCalls == SeqSum([i \in 1..Cardinality(Paths) |-> h.emitted[i].processing])

HasOperations(p) == planned_actions[p].kind = "Sync" /\ planned_actions[p].operations # <<>>

\* The calls of one iteration: 'processing' first, with the number of the
\* iterations before it and the size of the plan; then 'syncing' when the
\* path has operations, none of which was attempted yet; the history counts
\* them
CallsOfIteration(p) ==
    LET progress == progress_calls(p)
    IN /\ progress # <<>>
       /\ progress[1] = [processed |-> ProcessingCalls, total |-> Cardinality(all_paths),
                         filename |-> file_name(p), operation |-> "processing"]
       /\ ProcessingCalls < Cardinality(all_paths)
       /\ IF HasOperations(p)
          THEN /\ Len(progress) = 2
               /\ progress[2] = [progress[1] EXCEPT !.operation = "syncing"]
               /\ \A a \in h.ops : a.op.path # p
          ELSE /\ Len(progress) = 1
               /\ planned_actions[p].kind \in {"NoAction", "Conflict"}
       /\ h'.emitted = [h.emitted EXCEPT ![p] =
                          [processing |-> @.processing + 1,
                           syncing |-> @.syncing + Len(progress) - 1]]

\* At any time a path has been reported at most once; when the loop is over
\* every path of the plan was reported 'processing' once, and 'syncing' once
\* if and only if it has operations
OncePerPath ==
    /\ \A p \in Paths : h.emitted[p].processing <= 1 /\ h.emitted[p].syncing <= 1
    /\ (phase = "exec" /\ todo = {}) =>
          \A p \in Paths :
             /\ h.emitted[p].processing = (IF p \in all_paths THEN 1 ELSE 0)
             /\ h.emitted[p].syncing = (IF p \in all_paths /\ HasOperations(p) THEN 1 ELSE 0)

\* C26: in the execute phase the progress callback is called with
\* 'processing' exactly once per path of the plan, with a constant total and
\* processed counting 0, 1, .. in plan order, and with 'syncing' exactly once
\* for each path that has operations, after its 'processing' and before its
\* operations, never for a NoAction or Conflict path.
C26_ProgressOncePerPath ==
    /\ []OncePerPath
    /\ [][/\ \A p \in Paths : Iterates(p) => CallsOfIteration(p)
          /\ (phase' # "idle" /\ phase # "idle" /\ ~ \E p \in Paths : Iterates(p)) =>
                 h'.emitted = h.emitted]_vars

\* An iteration of a path with operations has made its two calls, after an
\* iteration of another path
C26_Witness ==
    /\ phase = "ops"
    /\ ProcessingCalls = 2
    /\ h.emitted[cur.path] = [processing |-> 1, syncing |-> 1]

\* ---- C27
\* The hashes present among the three arguments
PresentHashes == {x \in {eval.local_hash, eval.gdrive_hash, eval.smb_hash} : x # NoHash}

\* C27: detect_conflicts returns Some(conflict) exactly when at least two
\* distinct hashes are present among its three arguments, None when the
\* present ones agree or at most one is present; the conflict carries the
\* three arguments unchanged.
C27_ConflictIffTwoDistinct ==
    (eval.f = "detect_conflicts" /\ eval.returned) =>
        /\ eval.value # <<>> <=> (\E x, y \in PresentHashes : x # y)
        /\ eval.value # <<>> =>
              /\ eval.value[1].local_hash = eval.local_hash
              /\ eval.value[1].gdrive_hash = eval.gdrive_hash
              /\ eval.value[1].smb_hash = eval.smb_hash

\* Two locations hold one hash and the third holds none: no conflict
C27_Witness ==
    /\ eval.f = "detect_conflicts" /\ eval.returned
    /\ eval.local_hash = eval.smb_hash /\ eval.local_hash # NoHash
    /\ eval.gdrive_hash = NoHash
    /\ eval.value = <<>>

\* ---- C29
\* verify_file_hash has returned Ok(..) for a readable file
Verified == eval.f = "verify_file_hash" /\ eval.returned /\ eval.value.ok

\* The string with its letters in the other case
SwapCase(s) ==
    [i \in 1..Len(s) |->
        IF \E k \in 1..Len(LowerCase) : LowerCase[k] = s[i]
        THEN UpperCase[CHOOSE k \in 1..Len(LowerCase) : LowerCase[k] = s[i]]
        ELSE to_ascii_lowercase(s[i])]

\* The spellings of the file's digest: each character in either case
Spellings(c) ==
    {s \in ExpectedHashes :
        /\ Len(s) = DigestLen
        /\ \A i \in 1..DigestLen :
              s[i] \in {compute_file_hash_string(c)[i], SwapCase(compute_file_hash_string(c))[i]}}

\* C29: verify_file_hash returns true exactly when the expected string is the
\* file's SHA-256 hex digest up to the case of its letters: true for the
\* value of compute_file_hash on the file, false for every string that is
\* not a spelling of the digest.
C29_VerifyIffDigestIgnoringCase ==
    Verified =>
        /\ eval.value.value <=> eval.expected_hash \in Spellings(eval.content)
        /\ eval.expected_hash = compute_file_hash_string(eval.content) => eval.value.value

\* The digest was passed in upper case and accepted
C29_Witness ==
    /\ Verified
    /\ eval.expected_hash = SwapCase(compute_file_hash_string(eval.content))
    /\ eval.expected_hash # compute_file_hash_string(eval.content)
    /\ eval.value.value

\* ---- C21
\* C21: the loopback listener is bound before the browser is opened, so that
\* no redirect made after the browser's launch is refused.
C21_ListenerBeforeBrowser ==
    /\ [][(oauth'.browser /\ ~oauth.browser) => oauth.listener = "bound"]_vars
    /\ [](~oauth.refused)

\* ---- C22
\* The state of the callback authenticate received is its CSRF token
StateIsCsrf == oauth.callback # <<>> /\ oauth.callback[1].state = oauth.csrf_token

\* C22: authenticate requests the token exchange and writes the keychain
\* only when the state of the callback equals the CSRF token it generated;
\* when they differ it returns an OAuthError, with no exchange and the
\* keychain as it was.
C22_KeychainOnlyAfterCsrf ==
    [][/\ (keychain' # keychain \/ (oauth'.exchanged /\ ~oauth.exchanged)) => StateIsCsrf
       /\ (oauth.pc = "verify_csrf" /\ ~StateIsCsrf) =>
             /\ oauth'.pc = "returned" /\ oauth'.ret = "OAuthError"
             /\ ~oauth'.exchanged
             /\ keychain' = keychain]_vars

\* authenticate has returned on a callback with a foreign state
C22_Witness ==
    /\ oauth.pc = "returned" /\ oauth.ret = "OAuthError"
    /\ oauth.callback # <<>> /\ oauth.callback[1].state # oauth.csrf_token
    /\ ~oauth.exchanged

\* ---- C23
\* C23: wait_for_callback returns within CALLBACK_TIMEOUT of binding its
\* listener, whatever the accepted connection sends: it is never still
\* waiting later than that.
C23_CallbackWaitIsBounded ==
    oauth.pc \in {"accept", "read_line", "rx_await"} =>
        now - oauth.bound_at <= CALLBACK_TIMEOUT

\* ---- C24
\* The call has returned a token
TokenReturned == eval.f = "get_access_token" /\ eval.pc = "returned" /\ eval.ret = "Ok"

\* The call used the token that was stored when it started, with no refresh
UsedStored == ~eval.exchanged /\ eval.response = <<>> /\ eval.value = eval.tokens.access_token

\* C24: an authenticated call uses the stored access token without a refresh
\* if and only if expires_at is absent or more than 300 seconds after the
\* time of the call; at 300 seconds or less it exchanges the refresh token
\* and uses the new access token.
C24_RefreshWithinMargin ==
    TokenReturned =>
        /\ UsedStored <=>
              \/ eval.tokens.expires_at = <<>>
              \/ eval.tokens.expires_at[1] - eval.checked_at > REFRESH_MARGIN
        /\ ~UsedStored => (eval.exchanged /\ eval.value = eval.response[1].access_token)

\* ---- C25
\* A refresh has stored its tokens in this step
Refreshed == eval.pc = "store_tokens" /\ eval'.ret = "Ok"

\* C25: starting from stored tokens with a refresh token, the keychain holds
\* a refresh token after every refresh, the prior one when the response has
\* none; the stored access token and expires_at are those of the latest
\* response; a refresh that fails leaves the stored tokens unchanged.
C25_RefreshKeepsRefreshToken ==
    [][/\ Refreshed =>
             LET r == eval.response[1]
                 stored == keychain'.tokens[1]
             IN /\ stored.access_token = r.access_token
                /\ stored.expires_at = (IF r.expires_in = <<>> THEN <<>>
                                        ELSE <<now + r.expires_in[1]>>)
                /\ stored.refresh_token = (IF r.refresh_token # <<>> THEN r.refresh_token
                                           ELSE keychain.tokens[1].refresh_token)
                /\ stored.refresh_token # <<>>
       /\ (eval.f = "get_access_token" /\ ~Refreshed) => keychain' = keychain]_vars

\* A second refresh whose response has no refresh token has stored the
\* refresh token the keychain held
C25_Witness ==
    /\ TokenReturned /\ eval.calls = 2 /\ eval.exchanged
    /\ eval.response[1].refresh_token = <<>>
    /\ keychain.tokens[1].refresh_token = eval.tokens.refresh_token
    /\ keychain.tokens[1].access_token = eval.response[1].access_token

\* ---- C36
ChangedReturned == eval.f = "has_changed" /\ eval.returned

\* C36: has_changed is true exactly when the file exists now and has no
\* baseline hash, or is absent now and has a baseline hash, or exists with a
\* hash different from the baseline hash, a snapshot without a hash counting
\* as different; it is false for an absent file with no baseline hash and
\* for a present file whose hash equals the baseline hash.
C36_ChangedIffDiffers ==
    ChangedReturned =>
        (eval.value <=>
            \/ eval.current.present /\ eval.known = NoHash
            \/ ~eval.current.present /\ eval.known # NoHash
            \/ /\ eval.current.present /\ eval.known # NoHash
               /\ (eval.current.hash = NoHash \/ eval.current.hash # eval.known))

\* A present file without a hash, against a baseline hash: changed
C36_Witness ==
    /\ ChangedReturned
    /\ eval.current = FileSnapshot(NoHash) /\ eval.known # NoHash
    /\ eval.value

\* ---- C37
\* C37: the planner compares hashes without regard to case: a current hash
\* that differs from the baseline hash only in the case of its hex digits is
\* no change.
C37_ComparisonIgnoresCase ==
    (/\ ChangedReturned
     /\ eval.current.present /\ eval.current.hash # NoHash /\ eval.known # NoHash
     /\ eq_ignore_ascii_case(eval.current.hash, eval.known)) => ~eval.value

\* ---- C31
\* The listing of location l has returned Ok in this step
ListingReturned(l) ==
    \/ l = GoogleDrive /\ phase = "scan_gdrive" /\ phase' = "scan_smb" /\ gdrive_provider
    \/ l = Smb /\ phase = "scan_smb" /\ phase' = "load" /\ smb_provider = "mounted"

\* C31: a listing that returns is the complete recursive listing of the
\* provider's tree; a subfolder that could not be listed makes the listing
\* fail, never a listing without the subfolder's files.
C31_ListingIsCompleteOrFails ==
    [][/\ ListingReturned(GoogleDrive) => gdrive_files' = scan_location(GoogleDrive)
       /\ ListingReturned(Smb) => smb_files' = scan_location(Smb)]_vars

\* C32: a path whose Upload or Delete failed in a run keeps its baseline rows
\* when the run commits, so the next run classifies it as changed again
C32_FailedPathKeepsBaseline ==
    [][(phase = "exec" /\ phase' = "done" /\ result'.outcome = "Ok")
         => \A p \in Paths :
              (\E a \in h.ops : ~a.ok /\ a.op.path = p) => baseline'[p] = baseline[p]]_vars

\* C38: a run that follows a run reporting a Conflict, with no change in
\* between and the copies still differing, reports the Conflict again
C38_ConflictReportedAgain ==
    (PlanComputed /\ h.second)
      => \A p \in h.prev.conflicts :
           (\E l1, l2 \in Loc : h.files0[l1][p] # h.files0[l2][p])
             => planned_actions[p].kind = "Conflict"

\* C33: once every invocation of the start_sync command has returned,
\* is_syncing is false, so a later start_sync is not rejected
C33_FlagClearedOnReturn ==
    (\A t \in Tasks : pc[t] = "idle") => ~is_syncing

\* C34: a configured share provider has been initialized (mounted) before
\* start_sync scans it
C34_InitializedBeforeScan ==
    (phase = "scan_smb" /\ smb_provider # "none") => smb_provider = "mounted"

\* The non-null hashes a ConflictInfo carries
ConflictHashes(info) == {info.local_hash, info.gdrive_hash, info.smb_hash} \ {NoHash}

\* C35: every Conflict the planner emits carries at least two distinct
\* non-null hashes among local, cloud and share
C35_ConflictHasTwoHashes ==
    PlanComputed
      => \A p \in Paths :
           planned_actions[p].kind = "Conflict"
             => Cardinality(ConflictHashes(planned_actions[p].conflict)) >= 2

\* One planned operation is well formed against the scans and the providers
\* of the run: an Upload goes from a location whose scan holds the path to a
\* different, configured location whose scan does not; a Delete targets a
\* configured location whose scan holds the path
WellFormed(op) ==
    IF op.kind = "Upload"
    THEN /\ op.from # op.to
         /\ Snapshot(op.path, op.from).present
         /\ get_provider(op.from) /\ get_provider(op.to)
         /\ ~Snapshot(op.path, op.to).present
    ELSE /\ get_provider(op.to)
         /\ Snapshot(op.path, op.to).present

\* C39: every planned operation is well formed, no path has both an Upload
\* and a Delete, and get_provider succeeds for every planned operation
C39_PlanWellFormed ==
    PlanComputed
      => \A p \in Paths :
           /\ \A op \in OpsOf(p) : op.path = p /\ WellFormed(op)
           /\ ~(\E a, b \in OpsOf(p) : a.kind = "Upload" /\ b.kind = "Delete")

C39_Witness ==
    /\ PlanComputed
    /\ \E p \in Paths : \E a, b \in OpsOf(p) :
          a.kind = "Upload" /\ a.to # Local /\ b.kind = "Upload" /\ b # a

\* The distinct paths of the union of the three scans of the run
ScannedPaths == {p \in Paths : \E l \in Loc : Snapshot(p, l).present}

\* C40: in a run that returns a result the three counters add up to the
\* number of distinct scanned paths, files_conflict is the length of the
\* conflicts list, and every path is counted in exactly one counter
C40_CountersPartitionPaths ==
    (phase = "done" /\ result.outcome = "Ok")
      => /\ result.files_synced + result.files_failed + result.files_conflict
              = Cardinality(ScannedPaths)
         /\ result.files_conflict = Len(result.conflicts)
         /\ result.files_conflict
              = Cardinality({p \in ScannedPaths : planned_actions[p].kind = "Conflict"})
         /\ result.files_failed
              = Cardinality({p \in ScannedPaths : \E a \in h.ops : ~a.ok /\ a.op.path = p})
         /\ \A p \in ScannedPaths :
              (\E a \in h.ops : ~a.ok /\ a.op.path = p) => planned_actions[p].kind = "Sync"

C40_Witness ==
    /\ phase = "done" /\ result.outcome = "Ok"
    /\ result.files_synced > 0 /\ result.files_conflict > 0
    /\ Cardinality(ScannedPaths) > 1
====
